---- MODULE Spec2Model ----
(***************************************************************************)
(* Model of the wordle-tui guess evaluator and board                       *)
(* (client/widgets/game_board.py), of the keyboard                         *)
(* (client/widgets/keyboard.py), of the game screen                        *)
(* (client/screens/game_screen.py), of the application's start-up          *)
(* (client/app.py) and of the server's game endpoints                      *)
(* (server/games/router.py, server/games/service.py,                       *)
(* server/streaks/service.py).                                             *)
(*                                                                         *)
(* Specifications:                                                         *)
(*   SpecEval     the evaluator applied to every guess/target pair         *)
(*   Spec         the server, request handlers interleaved at their awaits *)
(*   SpecSeq      the server, one request handled at a time                *)
(*   SpecBoard    the board's methods called one after the other           *)
(*   SpecClient   the game screen: key events and the tasks Enter creates, *)
(*                interleaved at the tasks' awaits                         *)
(*   SpecKeyboard the keyboard after each scored guess                     *)
(*   SpecRank     submissions of several players for one word              *)
(*   SpecDaily    submissions of one player over several days              *)
(*   SpecApp      the application's start-up                               *)
(*   SpecReplay   the replay of saved guesses, with key events             *)
(*   SpecTimer    the game screen and its timer                            *)
(*   SpecSave     the game screen and its auto-saves                       *)
(*   SpecSaves    save_progress requests for one pair, interleaved         *)
(*   SpecRestore  the replay of any stored guess list, no key events       *)
(*   SpecOnline   SpecSave with Enter pressed during a pending submission  *)
(***************************************************************************)
EXTENDS Integers, Sequences, FiniteSets, TLC

(***************************************************************************)
(* Letters are character codes: "A".."Z" = 65..90, "a".."z" = 97..122.     *)
(***************************************************************************)

\* Size of the alphabet the evaluator's inputs are drawn from.
NumLetters == 3

\* range(5) in evaluate_guess; the board has 5 columns.
WordLen == 5

\* The first NumLetters capital letters.
Letters == 65 .. (64 + NumLetters)

Words == [1..WordLen -> Letters]

\* str.upper() on one character.
Upper(c) == IF c \in 97..122 THEN c - 32 ELSE c

\* str.upper() on a word.
UpperWord(w) == [i \in 1..Len(w) |-> Upper(w[i])]

CORRECT == "correct"
PRESENT == "present"
ABSENT == "absent"

\* Words of the specification's examples.
CRANE == <<67, 82, 65, 78, 69>>
SPEED == <<83, 80, 69, 69, 68>>
ERASE == <<69, 82, 65, 83, 69>>
XXXXX == <<88, 88, 88, 88, 88>>

ExamplePairs == {<<SPEED, ERASE>>, <<XXXXX, CRANE>>, <<CRANE, CRANE>>, <<ERASE, SPEED>>}

(***************************************************************************)
(* GameBoard.evaluate_guess                                                *)
(***************************************************************************)

\* Pass 1 with a wrong comparison: a letter that occurs anywhere in the target is an exact match.
Pass1ResultAnywhere(guess, target) ==
    [i \in 1..WordLen |->
        IF \E j \in 1..WordLen : guess[i] = target[j] THEN CORRECT ELSE ABSENT]

\* First loop: result after marking the exact matches.
Pass1Result(guess, target) ==
    [i \in 1..WordLen |-> IF guess[i] = target[i] THEN CORRECT ELSE ABSENT]

\* First loop that never sets used[i].
Pass1UsedNone(guess, target) ==
    [i \in 1..WordLen |-> FALSE]

\* First loop: used[] after marking the exact matches.
Pass1Used(guess, target) ==
    [i \in 1..WordLen |-> guess[i] = target[i]]

\* Inner loop that forgets used[]: any target position holding ch matches.
FirstFreeIgnoringUsed(used, target, ch) ==
    LET free == {j \in 1..WordLen : target[j] = ch}
    IN IF free = {} THEN 0 ELSE CHOOSE j \in free : \A k \in free : j <= k

\* Inner loop: the first j with not used[j] and target[j] = ch, 0 when the loop ends without a break.
FirstFree(used, target, ch) ==
    LET free == {j \in 1..WordLen : ~used[j] /\ target[j] = ch}
    IN IF free = {} THEN 0 ELSE CHOOSE j \in free : \A k \in free : j <= k

RECURSIVE Pass2(_, _, _, _, _)
\* Second loop, from position i on.
Pass2(guess, target, result, used, i) ==
    IF i > WordLen THEN result
    ELSE IF result[i] = CORRECT THEN Pass2(guess, target, result, used, i + 1)
    ELSE LET j == FirstFree(used, target, guess[i])
         IN IF j = 0 THEN Pass2(guess, target, result, used, i + 1)
            ELSE Pass2(guess, target, [result EXCEPT ![i] = PRESENT],
                       [used EXCEPT ![j] = TRUE], i + 1)

\* A word read from its last letter to its first.
Mirrored(w) == [i \in 1..WordLen |-> w[WordLen + 1 - i]]

\* An evaluator whose second loop runs over the positions from the right.
evaluate_guess_from_right(guess, target) ==
    LET g == Mirrored(UpperWord(guess))
        t == Mirrored(UpperWord(target))
    IN Mirrored(Pass2(g, t, Pass1Result(g, t), Pass1Used(g, t), 1))

evaluate_guess(guess, target) ==
    LET g == UpperWord(guess)
        t == UpperWord(target)
    IN Pass2(g, t, Pass1Result(g, t), Pass1Used(g, t), 1)

\* What GameBoard.submit_guess returns for a complete row spelling guess: (won, feedback).
submit_guess_result(guess, target_word) ==
    [won |-> guess = target_word, feedback |-> evaluate_guess(guess, target_word)]

(***************************************************************************)
(* Server: tables, request bodies                                          *)
(***************************************************************************)

\* Longest guess list a request of the model carries.
MaxGuesses == 2

\* Largest elapsed_seconds / time_seconds a request of the model carries.
MaxElapsed == 1

\* max_length of SaveProgressRequest.guesses and GameSubmitRequest.guess_history.
MaxListLen == 6

\* Field(..., ge=1, le=7) on GameSubmitRequest.attempts.
MaxAttempts == 7

Users == {"u1"}

\* daily_words: the word with id w is the word of day w.
WordIds == {1}

Pairs == Users \X WordIds

\* Guess strings as the server stores them (never validated by the server).
GuessWords == {"CRANE", "SLATE"}

ListLens == 0 .. (IF MaxGuesses < MaxListLen THEN MaxGuesses ELSE MaxListLen)

GuessLists == UNION {[1..n -> GuessWords] : n \in ListLens}

\* An optional value: <<>> is None, <<x>> is x.
None == <<>>
Some(x) == <<x>>

\* Bodies pydantic lets through as SaveProgressRequest.
SaveBodies == [guesses : GuessLists, elapsed_seconds : 0..MaxElapsed]

\* Bodies pydantic lets through as GameSubmitRequest.
\* guess_history values the model's submit requests carry.
SubmitHistories == {<<"CRANE">>, <<"SLATE", "CRANE">>}

SubmitBodies ==
    [attempts : {1, MaxAttempts},
     solved : BOOLEAN,
     time_seconds : {None, Some(0)},
     guess_history : SubmitHistories]

Max(a, b) == IF a >= b THEN a ELSE b

\* list slicing new_guesses[:n]
Prefix(l, n) == SubSeq(l, 1, IF n < Len(l) THEN n ELSE Len(l))

Reqs == {1, 2}

\* A request slot: the handler's position ("idle" before the first request,
\* "done" once the response is out), its local variables and its response.
BlankReq ==
    [op |-> "none", pc |-> "idle", user |-> "", word |-> 0,
     progress |-> None, stale |-> FALSE, game |-> None, deleted |-> FALSE,
     streak |-> None,
     rank |-> 0, status |-> 0, message |-> ""]

(***************************************************************************)
(* Client: the board, its tiles, the keyboard and the dictionary           *)
(***************************************************************************)

\* range(6) in GameBoard.compose; the board has 6 rows.
MaxRows == 6

Rows == 0 .. (MaxRows - 1)
Cols == 0 .. (WordLen - 1)

EMPTY == "empty"
FILLED == "filled"

\* The empty string as a tile's letter.
NoLetter == 0

\* A Tile as constructed: letter = "", state = TileState.EMPTY.
BlankTile == [letter |-> NoLetter, state |-> EMPTY]

\* How many key events may take effect while a task is pending, over a game.
MaxRacingKeys == 1

\* So many tasks can be pending at once: each but the first needs an Enter
\* pressed while another is pending.
MaxTasks == MaxRacingKeys + 1

CRATE == <<67, 82, 65, 84, 69>>

\* The words the player types.
Vocabulary == {CRANE, CRATE}

\* The keys that spell them, as key events name them (lower case).
Keys == {w[i] + 32 : w \in Vocabulary, i \in 1..WordLen}

\* GameScreen's target_word
Targets == {CRANE}

\* Contents of data/valid_words.txt; empty when the file is missing or empty.
Dictionaries == SUBSET Vocabulary

\* "ABCDEFGHIJKLMNOPQRSTUVWXYZ"
KeyboardLetters == 65 .. 90

VARIABLES
    ev_guess, ev_target, ev_pc, ev_won, ev_feedback,
    game_results,   \* table game_results: a set of rows
    game_progress,  \* table game_progress: a set of rows
    user_streaks,   \* table user_streaks, by user_id
    today,          \* date.today()
    clock,          \* func.now()
    req,            \* the requests being handled
    incoming,       \* SpecSeq: the body of the save_progress request being handled
    accepted,       \* SpecSeq: per pair, the guess list of the last accepted save
    current_row,    \* GameBoard.current_row
    current_col,    \* GameBoard.current_col
    tiles,          \* GameBoard.tiles[row][col]: letter and state of each Tile
    guesses,        \* GameBoard.guesses
    board_target,   \* GameBoard._target_word
    key_states,     \* Keyboard.key_states
    game_over,      \* GameScreen.game_over
    won,            \* GameScreen.won
    valid_words,    \* VALID_WORDS, the dictionary
    tasks,          \* the pending tasks of the event loop, oldest first
    last,           \* the last call or key event: its name, its arguments, what it returned
    racing,         \* how many key events took effect while a task was pending
    startup,        \* WordleApp._fetch_server_word_and_start: its position, its server_data
    screen,         \* the screen the application shows
    saved_guesses,  \* GameScreen.saved_guesses
    restored,       \* how many of them _restore_saved_guesses has replayed
    wall,           \* int(time.time() - self.start_time), the seconds since the game began
    timer,          \* the position of _run_timer
    elapsed_seconds, \* GameScreen.elapsed_seconds
    header_timer,   \* GameHeader.elapsed_seconds, the time the header shows
    game_message,   \* the text GameMessage shows
    saves,          \* the pending _auto_save_progress tasks, oldest first
    submitted       \* the submit_game requests the client has sent, oldest first

evalVars == <<ev_guess, ev_target, ev_pc, ev_won, ev_feedback>>

serverVars == <<game_results, game_progress, user_streaks, today, clock, req>>

\* What SpecSeq records about the requests, to state properties of them.
logVars == <<incoming, accepted>>

boardVars == <<current_row, current_col, tiles, guesses, board_target>>

\* The application around the board: start-up, replay, timer, messages, auto-save.
appVars == <<startup, screen, saved_guesses, restored, wall, timer,
             elapsed_seconds, header_timer, game_message, saves,
                   submitted>>

clientVars == <<current_row, current_col, tiles, guesses, board_target,
                key_states, game_over, won, valid_words, tasks, last, racing,
                appVars>>

vars == <<ev_guess, ev_target, ev_pc, ev_won, ev_feedback,
          game_results, game_progress, user_streaks, today, clock, req,
          incoming, accepted,
          current_row, current_col, tiles, guesses, board_target,
          key_states, game_over, won, valid_words, tasks, last, racing,
          startup, screen, saved_guesses, restored, wall, timer,
          elapsed_seconds, header_timer, game_message, saves,
                   submitted>>

InitServer ==
    /\ game_results = {}
    /\ game_progress = {}
    /\ user_streaks = [u \in Users |-> None]
    /\ today = 1
    /\ clock = 0
    /\ req = [r \in Reqs |-> BlankReq]
    /\ incoming = None
    /\ accepted = [k \in Pairs |-> None]

InitEvalIdle ==
    /\ ev_guess = CRANE
    /\ ev_target = CRANE
    /\ ev_pc = "idle"
    /\ ev_won = FALSE
    /\ ev_feedback = <<>>

\* get_server_word_and_progress: result = {"word": None, ..., "auth_failed": False},
\* with the status of the progress request (0: not answered).
BlankStartup ==
    [pc |-> "none", auth_failed |-> FALSE, word |-> FALSE, progress_status |-> 0,
     has_progress |-> FALSE, guesses |-> <<>>,
     completed |-> FALSE, completed_result |-> None]

\* WordleApp.__init__ and a GameScreen as constructed with its defaults:
\* nothing fetched, nothing to replay, no timer running, no message.
InitApp(shown) ==
    /\ startup = BlankStartup
    /\ screen = shown
    /\ saved_guesses = <<>>
    /\ restored = 0
    /\ wall = 0
    /\ timer = "none"
    /\ elapsed_seconds = 0
    /\ header_timer = 0
    /\ game_message = ""
    /\ saves = <<>>
    /\ submitted = <<>>

\* A board before on_mount: nothing typed, no target, no dictionary loaded.
InitClientIdle ==
    /\ current_row = 0
    /\ current_col = 0
    /\ tiles = [r \in Rows |-> [c \in Cols |-> BlankTile]]
    /\ guesses = <<>>
    /\ board_target = <<>>
    /\ key_states = [l \in KeyboardLetters |-> "unused"]
    /\ game_over = FALSE
    /\ won = FALSE
    /\ valid_words = {}
    /\ tasks = <<>>
    /\ last = [op |-> "none", arg |-> <<>>, ret |-> <<>>]
    /\ racing = 0
    /\ InitApp("none")

(***************************************************************************)
(* The evaluator applied to every pair of words                            *)
(***************************************************************************)

\* A board whose current row spells ev_guess, with target ev_target.
InitEval ==
    /\ \E p \in (Words \X Words) \cup ExamplePairs :
          /\ ev_guess = p[1]
          /\ ev_target = p[2]
    /\ ev_pc = "ready"
    /\ ev_won = FALSE
    /\ ev_feedback = <<>>
    /\ InitServer
    /\ InitClientIdle

\* submit_guess on that row.
EvalSubmit ==
    /\ ev_pc = "ready"
    /\ LET r == submit_guess_result(ev_guess, ev_target)
       IN /\ ev_won' = r.won
          /\ ev_feedback' = r.feedback
    /\ ev_pc' = "done"
    /\ UNCHANGED <<ev_guess, ev_target>>
    /\ UNCHANGED serverVars
    /\ UNCHANGED logVars
    /\ UNCHANGED clientVars

NextEval == EvalSubmit

SpecEval == InitEval /\ [][NextEval]_vars

(***************************************************************************)
(* Properties of the evaluator (checked under SpecEval)                    *)
(***************************************************************************)

\* Number of positions of word w holding letter l.
Occ(w, l) == Cardinality({i \in 1..WordLen : w[i] = l})

\* Number of positions of the guess holding l whose verdict is CORRECT or PRESENT.
Credited(w, fb, l) ==
    Cardinality({i \in 1..WordLen : w[i] = l /\ fb[i] \in {CORRECT, PRESENT}})

LettersOf(w) == {w[i] : i \in 1..WordLen}

Min(a, b) == IF a <= b THEN a ELSE b

AllCorrect(fb) == \A i \in 1..WordLen : fb[i] = CORRECT

\* C1: evaluate_guess returns 5 verdicts; the number of CORRECT verdicts is the
\* number of positions where guess and target agree, and for every letter the
\* number of its guess positions marked CORRECT or PRESENT is at most the
\* number of its occurrences in the target.
C1_CorrectCountAndNoOvercount ==
    ev_pc = "done" =>
        /\ DOMAIN ev_feedback = 1..WordLen
        /\ Cardinality({i \in 1..WordLen : ev_feedback[i] = CORRECT})
             = Cardinality({i \in 1..WordLen : ev_guess[i] = ev_target[i]})
        /\ \A l \in LettersOf(ev_guess) \cup LettersOf(ev_target) :
              Credited(ev_guess, ev_feedback, l) <= Occ(ev_target, l)

\* C1 witness: an evaluated guess with some exact matches and a letter that
\* occurs more often in the guess than in the target.
C1_Witness ==
    /\ ev_pc = "done"
    /\ \E i \in 1..WordLen : ev_guess[i] = ev_target[i]
    /\ \E l \in LettersOf(ev_guess) :
          Occ(ev_guess, l) > Occ(ev_target, l) /\ Occ(ev_target, l) > 0

\* C2: repeated letters resolve one-for-one: for every letter the number of its
\* guess positions marked CORRECT or PRESENT is min(occurrences in guess,
\* occurrences in target), every other position is ABSENT; SPEED against ERASE
\* is PRESENT ABSENT PRESENT PRESENT ABSENT and XXXXX against CRANE is all ABSENT.
C2_OneForOne ==
    ev_pc = "done" =>
        /\ \A l \in LettersOf(ev_guess) \cup LettersOf(ev_target) :
              Credited(ev_guess, ev_feedback, l)
                 = Min(Occ(ev_guess, l), Occ(ev_target, l))
        /\ \A i \in 1..WordLen : ev_feedback[i] \in {CORRECT, PRESENT, ABSENT}
        /\ (ev_guess = SPEED /\ ev_target = ERASE) =>
              ev_feedback = <<PRESENT, ABSENT, PRESENT, PRESENT, ABSENT>>
        /\ (ev_guess = XXXXX /\ ev_target = CRANE) =>
              ev_feedback = <<ABSENT, ABSENT, ABSENT, ABSENT, ABSENT>>

\* C2 witness: a guess repeating a letter more often than the target holds it,
\* so that one occurrence is credited and another is ABSENT.
C2_Witness ==
    /\ ev_pc = "done"
    /\ \E i, k \in 1..WordLen :
          /\ i # k
          /\ ev_guess[i] = ev_guess[k]
          /\ ev_feedback[i] \in {CORRECT, PRESENT}
          /\ ev_feedback[k] = ABSENT

\* C3: the verdicts are all CORRECT exactly when guess = target, and the won
\* flag of submit_guess is true exactly when all five verdicts are CORRECT.
C3_AllCorrectIffEqual ==
    ev_pc = "done" =>
        /\ AllCorrect(ev_feedback) <=> (ev_guess = ev_target)
        /\ ev_won <=> AllCorrect(ev_feedback)
        /\ (ev_guess = CRANE /\ ev_target = CRANE) => AllCorrect(ev_feedback)

\* C3 witness: a winning submission.
C3_Witness ==
    /\ ev_pc = "done"
    /\ ev_guess = ev_target
    /\ ev_won

(***************************************************************************)
(* Server: queries and constraints                                         *)
(***************************************************************************)

\* db.scalar(select(...)): the first row of the result, or None.
Scalar(rows) == IF rows = {} THEN None ELSE Some(CHOOSE x \in rows : TRUE)

\* select(GameResult).where(user_id == u, word_id == w)
ResultsOf(u, w) == {g \in game_results : g.user_id = u /\ g.word_id = w}

\* select(GameProgress).where(user_id == u, word_id == w)
ProgressOf(u, w) == {p \in game_progress : p.user_id = u /\ p.word_id = w}

\* select(DailyWord).where(DailyWord.date == today)
TodayWord == Scalar({w \in WordIds : w = today})

\* A game_results table without its unique constraint.
NoUniqueConstraint(u, w) == FALSE

\* UniqueConstraint("user_id", "word_id", name="unique_user_daily_game"):
\* an INSERT for (u, w) violates it when a committed row holds the pair.
ViolatesUniqueUserDailyGame(u, w) == ResultsOf(u, w) # {}

\* UniqueConstraint("user_id", "word_id", name="unique_user_game_progress")
ViolatesUniqueUserGameProgress(u, w) == ProgressOf(u, w) # {}

\* user_streaks.user_id is unique.
ViolatesUniqueStreakUser(u) == user_streaks[u] # None

\* Another request's open transaction has deleted the progress row of (u, w)
\* and not yet committed: the row stays locked until that transaction ends.
LockedProgress(r, u, w) ==
    \E q \in Reqs \ {r} :
        /\ req[q].pc = "sg_commit"
        /\ req[q].deleted
        /\ req[q].user = u
        /\ req[q].word = w

\* The progress row of (u, w) is deleted: every session that holds it as a
\* loaded object now holds an object whose row (its primary key) is gone.
MarkStale(rq, u, w) ==
    [q \in Reqs |->
        IF rq[q].progress # None /\ rq[q].progress[1].user_id = u
                                 /\ rq[q].progress[1].word_id = w
        THEN [rq[q] EXCEPT !.stale = TRUE] ELSE rq[q]]

\* Another request's open transaction holds an uncommitted INSERT for (u, w):
\* a second INSERT of the key waits for it.
InsertPending(r, u, w) ==
    \E q \in Reqs \ {r} :
        /\ req[q].pc = "sg_commit"
        /\ req[q].user = u
        /\ req[q].word = w

\* The handler returns (or raises): the response is set and the session is closed.
Done(r, status, message) ==
    [req[r] EXCEPT !.pc = "done", !.status = status, !.message = message,
                   !.progress = None, !.stale = FALSE, !.game = None,
                   !.deleted = FALSE, !.streak = None]

(***************************************************************************)
(* POST /games/progress  (save_progress)                                   *)
(***************************************************************************)

\* The existing-result query answered as if no game were ever completed.
ExistingResultNever(u, w) == None

\* existing_result = await db.scalar(select(GameResult)...)
ExistingResult(u, w) == Scalar(ResultsOf(u, w))

\* The append-only check without the comparison of the common prefix.
HistoryCheckLengthOnly(existing_guesses, new_guesses) ==
    IF Len(new_guesses) < Len(existing_guesses) THEN "Cannot remove guesses"
    ELSE "ok"

\* New guesses must start with all existing guesses (append-only).
HistoryCheck(existing_guesses, new_guesses) ==
    IF Len(new_guesses) < Len(existing_guesses) THEN "Cannot remove guesses"
    ELSE IF Prefix(new_guesses, Len(existing_guesses)) # existing_guesses
         THEN "Cannot modify previous guesses"
    ELSE "ok"

\* Time taken from the request as it comes.
NewElapsedIncoming(stored_elapsed, request_elapsed) == request_elapsed

\* Time can only increase.
NewElapsed(stored_elapsed, request_elapsed) == Max(stored_elapsed, request_elapsed)

\* A new row that leaves elapsed_seconds at the column default.
NewProgressDefaultElapsed(u, w, body) ==
    [user_id |-> u, word_id |-> w,
     guesses |-> body.guesses, elapsed_seconds |-> 0]

\* GameProgress(user_id=..., word_id=..., guesses=..., elapsed_seconds=...)
NewProgress(u, w, body) ==
    [user_id |-> u, word_id |-> w,
     guesses |-> body.guesses, elapsed_seconds |-> body.elapsed_seconds]

\* A request arrives and its handler starts: one of the operations ops, sent
\* by one of users for one of words.
BeginWith(r, ops, users, words) ==
    /\ req[r].pc \in {"idle", "done"}
    /\ \E op \in ops, u \in users, w \in words :
          req' = [req EXCEPT ![r] =
                    [BlankReq EXCEPT !.op = op, !.user = u, !.word = w,
                        !.pc = CASE op = "submit" -> "sg_flush"
                                 [] op = "save" -> "sp_result"
                                 [] op = "clear" -> "cp_load"]]
    /\ UNCHANGED <<game_results, game_progress, user_streaks, today, clock>>
    /\ UNCHANGED evalVars
    /\ UNCHANGED clientVars

Begin(r) == BeginWith(r, {"submit", "save", "clear"}, Users, WordIds)

\* Check if game is already completed.
SaveCheckResult(r) ==
    /\ req[r].pc = "sp_result"
    /\ req' = [req EXCEPT ![r] =
                 IF ExistingResult(req[r].user, req[r].word) # None
                 THEN Done(r, 200, "Game already completed")
                 ELSE [req[r] EXCEPT !.pc = "sp_progress"]]
    /\ UNCHANGED <<game_results, game_progress, user_streaks, today, clock>>
    /\ UNCHANGED evalVars
    /\ UNCHANGED clientVars

\* Find progress.
SaveLoadProgress(r) ==
    /\ req[r].pc = "sp_progress"
    /\ req' = [req EXCEPT ![r].progress = Scalar(ProgressOf(req[r].user, req[r].word)),
                          ![r].pc = "sp_write"]
    /\ UNCHANGED <<game_results, game_progress, user_streaks, today, clock>>
    /\ UNCHANGED evalVars
    /\ UNCHANGED clientVars

\* The rest of save_progress with the loaded progress row: check, assign, commit.
\* The UPDATE (WHERE id = the loaded row's) carries only the columns whose
\* value changed.
SaveUpdate(r, body) ==
    LET loaded == req[r].progress[1]
        u == req[r].user
        w == req[r].word
        check == HistoryCheck(loaded.guesses, body.guesses)
        elapsed == NewElapsed(loaded.elapsed_seconds, body.elapsed_seconds)
        dirty == body.guesses # loaded.guesses \/ elapsed # loaded.elapsed_seconds
    IN IF check # "ok"
       THEN /\ req' = [req EXCEPT ![r] = Done(r, 200, check)]
            /\ UNCHANGED game_progress
       ELSE IF ~dirty
       THEN /\ req' = [req EXCEPT ![r] = Done(r, 200, "saved")]
            /\ UNCHANGED game_progress
       ELSE IF req[r].stale
       THEN \* StaleDataError: the UPDATE matched no row
            /\ req' = [req EXCEPT ![r] = Done(r, 500, "StaleDataError")]
            /\ UNCHANGED game_progress
       ELSE /\ ~LockedProgress(r, u, w)  \* a locked row makes the UPDATE wait
            /\ game_progress' =
                 {IF p.user_id = u /\ p.word_id = w
                  THEN [p EXCEPT
                          !.guesses = IF body.guesses # loaded.guesses
                                      THEN body.guesses ELSE @,
                          !.elapsed_seconds = IF elapsed # loaded.elapsed_seconds
                                              THEN elapsed ELSE @]
                  ELSE p : p \in game_progress}
            /\ req' = [req EXCEPT ![r] = Done(r, 200, "saved")]

\* The rest of save_progress when no progress row was found: create, commit.
SaveInsert(r, body) ==
    IF ViolatesUniqueUserGameProgress(req[r].user, req[r].word)
    THEN \* the INSERT waits while the conflicting row is locked
         /\ ~LockedProgress(r, req[r].user, req[r].word)
         /\ req' = [req EXCEPT ![r] = Done(r, 500, "IntegrityError")]
         /\ UNCHANGED game_progress
    ELSE /\ game_progress' = game_progress \cup
                {NewProgress(req[r].user, req[r].word, body)}
         /\ req' = [req EXCEPT ![r] = Done(r, 200, "saved")]

\* save_progress from "if progress:" to its return, for the request body `body`.
SaveWriteBody(r, body) ==
    /\ req[r].pc = "sp_write"
    /\ IF req[r].progress # None THEN SaveUpdate(r, body) ELSE SaveInsert(r, body)
    /\ UNCHANGED <<game_results, user_streaks, today, clock>>
    /\ UNCHANGED evalVars
    /\ UNCHANGED clientVars

(***************************************************************************)
(* DELETE /games/progress/today  (clear_progress)                          *)
(***************************************************************************)

\* today_word and its progress row are looked up.
ClearLoad(r) ==
    /\ req[r].pc = "cp_load"
    /\ LET progress == IF TodayWord = None THEN None
                       ELSE Scalar(ProgressOf(req[r].user, TodayWord[1]))
       IN req' = [req EXCEPT ![r] =
                    IF progress = None THEN Done(r, 200, "cleared")
                    ELSE [req[r] EXCEPT !.progress = progress, !.pc = "cp_delete"]]
    /\ UNCHANGED <<game_results, game_progress, user_streaks, today, clock>>
    /\ UNCHANGED evalVars
    /\ UNCHANGED clientVars

\* await db.delete(progress); await db.commit(): DELETE WHERE id = the loaded
\* row's; a row already gone only draws a warning.
ClearDelete(r) ==
    /\ req[r].pc = "cp_delete"
    /\ LET u == req[r].progress[1].user_id
           w == req[r].progress[1].word_id
       IN IF req[r].stale
          THEN /\ req' = [req EXCEPT ![r] = Done(r, 200, "cleared")]
               /\ UNCHANGED game_progress
          ELSE /\ ~LockedProgress(r, u, w)
               /\ game_progress' = game_progress \ ProgressOf(u, w)
               /\ req' = [MarkStale(req, u, w) EXCEPT ![r] = Done(r, 200, "cleared")]
    /\ UNCHANGED <<game_results, user_streaks, today, clock>>
    /\ UNCHANGED evalVars
    /\ UNCHANGED clientVars

(***************************************************************************)
(* POST /games/submit  (submit, submit_game, update_streak)                *)
(***************************************************************************)

\* GameResult(user_id=..., word_id=..., attempts=..., ...), completed_at = func.now()
NewGameResult(id, u, w, body, now) ==
    [id |-> id, user_id |-> u, word_id |-> w, attempts |-> body.attempts,
     solved |-> body.solved, time_seconds |-> body.time_seconds,
     completed_at |-> now, guess_history |-> body.guess_history]

\* submit_game written with db.merge(game) keyed by the pair: a row that is
\* already there is overwritten instead of raising IntegrityError.
SubmitFlushMerge(r) ==
    /\ req[r].pc = "sg_flush"
    /\ ~InsertPending(r, req[r].user, req[r].word)
    /\ \E body \in SubmitBodies :
         IF ViolatesUniqueUserDailyGame(req[r].user, req[r].word)
         THEN /\ game_results' =
                    {IF g.user_id = req[r].user /\ g.word_id = req[r].word
                     THEN NewGameResult(g.id, g.user_id, g.word_id, body, g.completed_at)
                     ELSE g : g \in game_results}
              /\ req' = [req EXCEPT ![r] = Done(r, 200, "submitted")]
              /\ UNCHANGED clock
         ELSE /\ req' = [req EXCEPT
                    ![r].game = Some(NewGameResult(clock + 1,
                                        req[r].user, req[r].word, body, clock + 1)),
                    ![r].deleted = (ProgressOf(req[r].user, req[r].word) # {}),
                    ![r].pc = "sg_commit"]
              /\ clock' = clock + 1
              /\ UNCHANGED game_results
    /\ UNCHANGED <<game_progress, user_streaks, today>>
    /\ UNCHANGED evalVars
    /\ UNCHANGED clientVars

\* db.add(game); await db.execute(delete(GameProgress)...): the session flushes
\* the INSERT, then the DELETE runs, both in the request's open transaction.
SubmitFlushWith(r, bodies) ==
    /\ req[r].pc = "sg_flush"
    /\ ~InsertPending(r, req[r].user, req[r].word)
    /\ IF ViolatesUniqueUserDailyGame(req[r].user, req[r].word)
       THEN \* IntegrityError, caught in submit: HTTP 400
            /\ req' = [req EXCEPT ![r] = Done(r, 400, "Already played today")]
            /\ UNCHANGED clock
       ELSE \E body \in bodies :
            /\ req' = [req EXCEPT
                    ![r].game = Some(NewGameResult(clock + 1,
                                        req[r].user, req[r].word, body, clock + 1)),
                    ![r].deleted = (ProgressOf(req[r].user, req[r].word) # {}),
                    ![r].pc = "sg_commit"]
            /\ clock' = clock + 1
    /\ UNCHANGED <<game_results, game_progress, user_streaks, today>>
    /\ UNCHANGED evalVars
    /\ UNCHANGED clientVars

SubmitFlush(r) == SubmitFlushWith(r, SubmitBodies)

\* await db.commit()
SubmitCommit(r) ==
    /\ req[r].pc = "sg_commit"
    /\ game_results' = game_results \cup {req[r].game[1]}
    /\ game_progress' = IF req[r].deleted
                        THEN game_progress \ ProgressOf(req[r].user, req[r].word)
                        ELSE game_progress
    /\ req' = [(IF req[r].deleted THEN MarkStale(req, req[r].user, req[r].word) ELSE req)
                 EXCEPT ![r].deleted = FALSE, ![r].pc = "sg_rank"]
    /\ UNCHANGED <<user_streaks, today, clock>>
    /\ UNCHANGED evalVars
    /\ UNCHANGED clientVars

\* get_rank_for_game without the filter on solved.
RankOfAllEarlier(game) ==
    LET count == Cardinality({g \in game_results :
                                 /\ g.word_id = game.word_id
                                 /\ g.completed_at < game.completed_at})
    IN IF game.solved THEN count + 1 ELSE 0

\* get_rank_for_game
RankOf(game) ==
    LET count == Cardinality({g \in game_results :
                                 /\ g.word_id = game.word_id
                                 /\ g.solved
                                 /\ g.completed_at < game.completed_at})
    IN IF game.solved THEN count + 1 ELSE 0

\* await db.refresh(game); rank = await get_rank_for_game(db, game)
SubmitRank(r) ==
    /\ req[r].pc = "sg_rank"
    /\ req' = [req EXCEPT ![r].rank = RankOf(req[r].game[1]), ![r].pc = "sg_streak"]
    /\ UNCHANGED <<game_results, game_progress, user_streaks, today, clock>>
    /\ UNCHANGED evalVars
    /\ UNCHANGED clientVars

\* update_streak: streak = await get_user_streak(db, user_id)
SubmitStreakLoad(r) ==
    /\ req[r].pc = "sg_streak"
    /\ req' = [req EXCEPT ![r].streak = user_streaks[req[r].user],
                          ![r].pc = "sg_streak_commit"]
    /\ UNCHANGED <<game_results, game_progress, user_streaks, today, clock>>
    /\ UNCHANGED evalVars
    /\ UNCHANGED clientVars

\* update_streak: the first record of a user.
FirstStreak(solved, day) ==
    [current_streak |-> IF solved THEN 1 ELSE 0,
     longest_streak |-> IF solved THEN 1 ELSE 0,
     last_played |-> Some(day),
     total_games |-> 1,
     total_wins |-> IF solved THEN 1 ELSE 0]

\* current_streak after a solved game, were a gap not to reset it.
SolvedStreakNoReset(streak, day) ==
    IF streak.last_played # None
    THEN IF streak.last_played[1] <= day - 1 THEN streak.current_streak + 1
         ELSE streak.current_streak
    ELSE 1

\* update_streak: current_streak after a solved game.
SolvedStreak(streak, day) ==
    IF streak.last_played # None
    THEN IF streak.last_played[1] = day - 1 THEN streak.current_streak + 1
         ELSE IF streak.last_played[1] < day - 1 THEN 1
         ELSE streak.current_streak
    ELSE 1

\* The record after one more game, were longest_streak to follow current_streak.
NextStreakLongestFollows(streak, solved, day) ==
    LET current == IF solved THEN SolvedStreak(streak, day) ELSE 0
    IN [current_streak |-> current,
        longest_streak |-> current,
        last_played |-> Some(day),
        total_games |-> streak.total_games + 1,
        total_wins |-> IF solved THEN streak.total_wins + 1 ELSE streak.total_wins]

\* update_streak: the record after one more game.
NextStreak(streak, solved, day) ==
    LET current == IF solved THEN SolvedStreak(streak, day) ELSE 0
    IN [current_streak |-> current,
        longest_streak |-> IF solved /\ current > streak.longest_streak
                           THEN current ELSE streak.longest_streak,
        last_played |-> Some(day),
        total_games |-> streak.total_games + 1,
        total_wins |-> IF solved THEN streak.total_wins + 1 ELSE streak.total_wins]

\* The UPDATE the session flushes for a loaded row: it sets the columns whose
\* value the handler changed and leaves the others as they are stored.
Flushed(stored, loaded, changed) ==
    [f \in DOMAIN stored |-> IF changed[f] # loaded[f] THEN changed[f] ELSE stored[f]]

\* update_streak: the record is created or changed and committed.
SubmitStreakCommit(r) ==
    /\ req[r].pc = "sg_streak_commit"
    /\ LET u == req[r].user
           solved == req[r].game[1].solved
       IN IF req[r].streak = None
          THEN IF ViolatesUniqueStreakUser(u)
               THEN \* IntegrityError, caught in submit: HTTP 400
                    /\ req' = [req EXCEPT ![r] = Done(r, 400, "Already played today")]
                    /\ UNCHANGED user_streaks
               ELSE /\ user_streaks' =
                         [user_streaks EXCEPT ![u] = Some(FirstStreak(solved, today))]
                    /\ req' = [req EXCEPT ![r].pc = "sg_respond"]
          ELSE /\ user_streaks' =
                    [user_streaks EXCEPT
                        ![u] = Some(Flushed(user_streaks[u][1], req[r].streak[1],
                                        NextStreak(req[r].streak[1], solved, today)))]
               /\ req' = [req EXCEPT ![r].pc = "sg_respond"]
    /\ UNCHANGED <<game_results, game_progress, today, clock>>
    /\ UNCHANGED evalVars
    /\ UNCHANGED clientVars

\* streak = await get_user_streak(db, user.id); return GameSubmitResponse(...)
SubmitRespond(r) ==
    /\ req[r].pc = "sg_respond"
    /\ req' = [req EXCEPT ![r] = Done(r, 200, "submitted")]
    /\ UNCHANGED <<game_results, game_progress, user_streaks, today, clock>>
    /\ UNCHANGED evalVars
    /\ UNCHANGED clientVars

\* The body of a save_progress request is drawn when the handler first uses it.
SaveWrite(r) == \E body \in SaveBodies : SaveWriteBody(r, body)

Step(r) ==
    \/ Begin(r) /\ UNCHANGED logVars
    \/ SaveCheckResult(r) /\ UNCHANGED logVars
    \/ SaveLoadProgress(r) /\ UNCHANGED logVars
    \/ SaveWrite(r) /\ UNCHANGED logVars
    \/ ClearLoad(r) /\ UNCHANGED logVars
    \/ ClearDelete(r) /\ UNCHANGED logVars
    \/ SubmitFlush(r) /\ UNCHANGED logVars
    \/ SubmitCommit(r) /\ UNCHANGED logVars
    \/ SubmitRank(r) /\ UNCHANGED logVars
    \/ SubmitStreakLoad(r) /\ UNCHANGED logVars
    \/ SubmitStreakCommit(r) /\ UNCHANGED logVars
    \/ SubmitRespond(r) /\ UNCHANGED logVars

Init == InitServer /\ InitEvalIdle /\ InitClientIdle

\* Handlers interleave at their awaits.
Next == \E r \in Reqs : Step(r)

Spec == Init /\ [][Next]_vars

(***************************************************************************)
(* The server handling one request at a time.  The body of a save_progress *)
(* request is fixed when the request arrives and kept in `incoming`.       *)
(***************************************************************************)

Alone(r) == \A q \in Reqs \ {r} : req[q].pc \in {"idle", "done"}

SeqBegin(r) ==
    /\ Alone(r)
    /\ Begin(r)
    /\ incoming' \in IF req'[r].op = "save" THEN {Some(b) : b \in SaveBodies} ELSE {None}
    /\ UNCHANGED accepted

SeqSaveWrite(r) ==
    /\ Alone(r)
    /\ SaveWriteBody(r, incoming[1])
    /\ accepted' = IF req'[r].message = "saved"
                   THEN [accepted EXCEPT ![<<req[r].user, req[r].word>>] =
                                            Some(incoming[1].guesses)]
                   ELSE accepted
    /\ UNCHANGED incoming

SeqStep(r) ==
    \/ SeqBegin(r)
    \/ Alone(r) /\ SaveCheckResult(r) /\ UNCHANGED logVars
    \/ Alone(r) /\ SaveLoadProgress(r) /\ UNCHANGED logVars
    \/ SeqSaveWrite(r)
    \/ Alone(r) /\ ClearLoad(r) /\ UNCHANGED logVars
    \/ Alone(r) /\ ClearDelete(r) /\ UNCHANGED logVars
    \/ Alone(r) /\ SubmitFlush(r) /\ UNCHANGED logVars
    \/ Alone(r) /\ SubmitCommit(r) /\ UNCHANGED logVars
    \/ Alone(r) /\ SubmitRank(r) /\ UNCHANGED logVars
    \/ Alone(r) /\ SubmitStreakLoad(r) /\ UNCHANGED logVars
    \/ Alone(r) /\ SubmitStreakCommit(r) /\ UNCHANGED logVars
    \/ Alone(r) /\ SubmitRespond(r) /\ UNCHANGED logVars

NextSeq == \E r \in Reqs : SeqStep(r)

SpecSeq == Init /\ [][NextSeq]_vars

(***************************************************************************)
(* Properties of the server                                                *)
(***************************************************************************)

IsPrefix(a, b) == Len(a) <= Len(b) /\ \A i \in 1..Len(a) : a[i] = b[i]

\* Request slot r took a step of its handler.
Stepped(r) == req'[r] # req[r]

SubmitDone(r) == req[r].op = "submit" /\ req[r].pc = "done"

\* The submit handler of slot r has committed its Game Result and is still running.
SubmitCommitted(r) ==
    /\ req[r].op = "submit"
    /\ req[r].pc \in {"sg_rank", "sg_streak", "sg_streak_commit", "sg_respond"}

\* C4: however submit requests for one (user, word) interleave, at most one
\* Game Result row of the pair is persisted, exactly one once a submit for the
\* pair has committed or been answered; a submit is answered 200 or with HTTP
\* 400 'Already played today', and no two submits answered 200 stand for one pair.
C4_OneResultPerPair ==
    /\ \A k \in Pairs : Cardinality(ResultsOf(k[1], k[2])) <= 1
    /\ \A r \in Reqs :
          (SubmitDone(r) \/ SubmitCommitted(r)) =>
              Cardinality(ResultsOf(req[r].user, req[r].word)) = 1
    /\ \A r \in Reqs :
          SubmitDone(r) =>
              \/ req[r].status = 200
              \/ req[r].status = 400 /\ req[r].message = "Already played today"
    /\ \A r, q \in Reqs :
          (/\ r # q
           /\ req[r].user = req[q].user
           /\ req[r].word = req[q].word
           /\ SubmitDone(r) \/ SubmitCommitted(r)
           /\ SubmitDone(q) \/ SubmitCommitted(q))
          => (req[r].status = 400 \/ req[q].status = 400)

\* C4 witness: a submit was answered 400 while the submit that wrote the
\* pair's row is still being handled.
C4_Witness ==
    \E r, q \in Reqs :
        /\ r # q
        /\ SubmitCommitted(r)
        /\ SubmitDone(q)
        /\ req[q].status = 400
        /\ req[q].user = req[r].user
        /\ req[q].word = req[r].word

\* C5: a persisted Game Result is never changed or deleted by any step of any
\* request, it stays the only row of its pair, and a submit that reaches its
\* INSERT while the pair has a row is answered 400 and changes no table.
C5_ResultImmutable ==
    [][/\ \A g \in game_results :
             /\ g \in game_results'
             /\ {h \in game_results' : h.user_id = g.user_id /\ h.word_id = g.word_id} = {g}
       /\ \A r \in Reqs :
             (/\ req[r].pc = "sg_flush"
              /\ Stepped(r)
              /\ ResultsOf(req[r].user, req[r].word) # {})
             => /\ req'[r].pc = "done"
                /\ req'[r].status = 400
                /\ game_results' = game_results
                /\ game_progress' = game_progress]_vars

\* C5 witness: with a row persisted, a second submit was refused and another
\* request (save_progress or clear_progress) was handled as well.
C5_Witness ==
    /\ game_results # {}
    /\ \E r, q \in Reqs :
          /\ SubmitDone(r)
          /\ req[r].status = 400
          /\ req[q].op \in {"save", "clear"}
          /\ req[q].pc = "done"

\* The stored snapshot of the pair slot r's request is about.
Stored(r) == ProgressOf(req[r].user, req[r].word)

\* Slot r's save_progress handler runs its last step (check, assign, commit).
SaveWrites(r) == req[r].op = "save" /\ req[r].pc = "sp_write" /\ Stepped(r)

Rejections == {"Cannot remove guesses", "Cannot modify previous guesses"}

\* C6: when a snapshot is stored and the incoming guess list is shorter than
\* the stored one or differs from it within its length, the save is rejected
\* and the stored snapshot is unchanged.
C6_RejectRewrittenHistory ==
    [][\A r \in Reqs :
          SaveWrites(r) =>
             \A st \in Stored(r) :
                (\/ Len(incoming[1].guesses) < Len(st.guesses)
                 \/ \E i \in 1..Len(st.guesses) :
                       i <= Len(incoming[1].guesses) /\ incoming[1].guesses[i] # st.guesses[i])
                => /\ req'[r].pc = "done"
                   /\ req'[r].message \in Rejections
                   /\ game_progress' = game_progress]_vars

\* C6 witness: stored [CRANE, SLATE], incoming [CRANE], rejected.
C6_Witness ==
    \E r \in Reqs :
        /\ req[r].op = "save"
        /\ req[r].pc = "done"
        /\ req[r].message = "Cannot remove guesses"
        /\ incoming # None
        /\ incoming[1].guesses = <<"CRANE">>
        /\ \E st \in Stored(r) : st.guesses = <<"CRANE", "SLATE">>

\* C7 (as claimed): every accepted save's guess list has the guess list of
\* every save accepted before it for the pair as a prefix.
C7_AcceptedOnlyAppend ==
    [][\A r \in Reqs :
          (SaveWrites(r) /\ req'[r].message = "saved"
              /\ accepted[<<req[r].user, req[r].word>>] # None)
          => IsPrefix(accepted[<<req[r].user, req[r].word>>][1], incoming[1].guesses)]_vars

\* C8: a save that extends the stored list with a lower elapsed_seconds is
\* accepted and the stored elapsed_seconds stays; no save_progress step
\* lowers the stored elapsed_seconds or removes the snapshot.
C8_ElapsedNeverDecreases ==
    [][\A r \in Reqs :
          (req[r].op = "save" /\ req[r].pc # "done" /\ Stepped(r)) =>
             \A st \in Stored(r) :
                /\ \E n \in Stored(r)' : n.elapsed_seconds >= st.elapsed_seconds
                /\ \A n \in Stored(r)' : n.elapsed_seconds >= st.elapsed_seconds
                /\ (/\ req[r].pc = "sp_write"
                    /\ IsPrefix(st.guesses, incoming[1].guesses)
                    /\ incoming[1].elapsed_seconds < st.elapsed_seconds)
                   => /\ req'[r].message = "saved"
                      /\ \A n \in Stored(r)' :
                            /\ n.elapsed_seconds = st.elapsed_seconds
                            /\ n.guesses = incoming[1].guesses]_vars

\* C8 witness: a save with a lower elapsed_seconds than the stored one and a
\* longer guess list was accepted.
C8_Witness ==
    \E r \in Reqs :
        /\ req[r].op = "save"
        /\ req[r].pc = "done"
        /\ req[r].message = "saved"
        /\ incoming # None
        /\ \E st \in Stored(r) :
              /\ incoming[1].elapsed_seconds < st.elapsed_seconds
              /\ st.guesses = incoming[1].guesses
              /\ Len(st.guesses) > 1

\* C9: every step a save_progress handler takes while a Game Result exists for
\* its pair ends the request with 'Game already completed' and leaves the
\* progress table as it was.
C9_RejectWhenCompleted ==
    [][\A r \in Reqs :
          (/\ req[r].op = "save"
           /\ Stepped(r)
           /\ req'[r].op = "save"
           /\ req[r].pc # "done"
           /\ ResultsOf(req[r].user, req[r].word) # {})
          => /\ req'[r].pc = "done"
             /\ req'[r].status = 200
             /\ req'[r].message = "Game already completed"
             /\ game_progress' = game_progress]_vars

\* C9 witness: a save carrying guesses was refused because the game is completed.
C9_Witness ==
    \E r \in Reqs :
        /\ req[r].op = "save"
        /\ req[r].pc = "done"
        /\ req[r].message = "Game already completed"
        /\ incoming # None
        /\ Len(incoming[1].guesses) = 2
        /\ incoming[1].elapsed_seconds > 0
        /\ ResultsOf(req[r].user, req[r].word) # {}
        /\ Stored(r) = {}

\* C10: with neither a Game Result nor a snapshot the save is accepted whatever
\* it carries, and after every accepted save the stored snapshot holds the
\* incoming guesses and max(previously stored elapsed_seconds or 0, incoming).
C10_AcceptedSnapshot ==
    [][\A r \in Reqs :
          SaveWrites(r) =>
             /\ (Stored(r) = {} /\ ResultsOf(req[r].user, req[r].word) = {})
                   => req'[r].message = "saved"
             /\ req'[r].message = "saved" =>
                   \E n \in Stored(r)' :
                      /\ Stored(r)' = {n}
                      /\ n.guesses = incoming[1].guesses
                      /\ n.elapsed_seconds =
                            Max(IF Stored(r) = {} THEN 0
                                ELSE (CHOOSE st \in Stored(r) : TRUE).elapsed_seconds,
                                incoming[1].elapsed_seconds)]_vars

\* C10 witness: the first save of a pair was accepted and stored as it came.
C10_Witness ==
    \E r \in Reqs :
        /\ req[r].op = "save"
        /\ req[r].pc = "done"
        /\ req[r].message = "saved"
        /\ incoming # None
        /\ accepted[<<req[r].user, req[r].word>>] = Some(incoming[1].guesses)
        /\ game_results = {}
        /\ \E st \in Stored(r) :
              /\ st.guesses = incoming[1].guesses
              /\ st.elapsed_seconds = incoming[1].elapsed_seconds
              /\ st.elapsed_seconds > 0
              /\ Len(st.guesses) = 1

(***************************************************************************)
(* C11: in every reachable server state, handlers interleaved at their     *)
(* awaits, no (user, word) pair has both a row in game_results and a row   *)
(* in game_progress.                                                       *)
(***************************************************************************)
C11_NoResultWithSnapshot ==
    \A p \in Pairs : ~(ResultsOf(p[1], p[2]) # {} /\ ProgressOf(p[1], p[2]) # {})

(***************************************************************************)
(* Client: Tile, GameBoard and Keyboard methods                            *)
(***************************************************************************)

\* Tile.set_letter
set_letter(letter) ==
    [letter |-> letter, state |-> IF letter # NoLetter THEN FILLED ELSE EMPTY]

\* Tile.clear
clear == [letter |-> NoLetter, state |-> EMPTY]

\* Tile.reveal, once its delay has passed
reveal(tile, new_state) == [tile EXCEPT !.state = new_state]

\* GameBoard.is_row_complete
is_row_complete == current_col = WordLen

\* GameBoard.get_current_guess: the row's letters joined ("" adds nothing).
get_current_guess ==
    UpperWord(SelectSeq([i \in 1..WordLen |-> tiles[current_row][i - 1].letter],
                        LAMBDA x : x # NoLetter))

\* add_letter refusing only a full board, not a full row.
AddLetterRejectsRowOnly == current_row >= MaxRows

\* add_letter: if self.current_row >= 6 or self.current_col >= 5
AddLetterRejects == current_row >= MaxRows \/ current_col >= WordLen

\* GameBoard.add_letter
add_letter(letter) ==
    IF AddLetterRejects
    THEN UNCHANGED boardVars
    ELSE /\ tiles' = [tiles EXCEPT ![current_row][current_col] = set_letter(Upper(letter))]
         /\ current_col' = current_col + 1
         /\ UNCHANGED <<current_row, guesses, board_target>>

\* What add_letter returns.
add_letter_returns == ~AddLetterRejects

\* remove_letter clearing the cell under the cursor, before moving it.
RemovedColAtCursor == current_col

\* remove_letter: self.current_col -= 1, then the tile at the new current_col
RemovedCol == current_col - 1

\* GameBoard.remove_letter
remove_letter ==
    IF current_col <= 0
    THEN UNCHANGED boardVars
    ELSE /\ current_col' = current_col - 1
         /\ tiles' = [tiles EXCEPT ![current_row][RemovedCol] = clear]
         /\ UNCHANGED <<current_row, guesses, board_target>>

\* What remove_letter returns.
remove_letter_returns == ~(current_col <= 0)

\* Keyboard.update_key: a key's state is only upgraded.
priority(state_str) ==
    CASE state_str = "absent" -> 1
      [] state_str = "present" -> 2
      [] state_str = "correct" -> 3
      [] OTHER -> 0

\* update_key that takes every new state as it comes.
update_key_overwrite(states, letter, state) ==
    LET l == Upper(letter)
        state_str == IF state # FILLED THEN state ELSE "unused"
    IN IF l \notin KeyboardLetters THEN states
       ELSE [states EXCEPT ![l] = state_str]

update_key(states, letter, state) ==
    LET l == Upper(letter)
        state_str == IF state # FILLED THEN state ELSE "unused"
    IN IF l \notin KeyboardLetters THEN states
       ELSE IF priority(state_str) > priority(states[l])
       THEN [states EXCEPT ![l] = state_str]
       ELSE states

\* Keyboard.update_from_guess: zip(guess.upper(), feedback), left to right.
RECURSIVE UpdateFrom(_, _, _, _)
UpdateFrom(states, guess, feedback, i) ==
    IF i > Len(guess) \/ i > Len(feedback) THEN states
    ELSE UpdateFrom(update_key(states, guess[i], feedback[i]), guess, feedback, i + 1)

update_from_guess(states, guess, feedback) == UpdateFrom(states, guess, feedback, 1)

(***************************************************************************)
(* GameBoard.submit_guess, in the steps its awaits divide it into          *)
(***************************************************************************)

otherVars == <<evalVars, serverVars, logVars, appVars>>

screenVars == <<key_states, game_over, won, valid_words>>

RemoveAt(seq, i) == SubSeq(seq, 1, i - 1) \o SubSeq(seq, i + 1, Len(seq))

\* The player types words of the vocabulary: key k continues the current row
\* towards one of them (any key may be pressed on a row or board that is full).
Typable(k) ==
    IF current_row >= MaxRows \/ current_col >= WordLen THEN TRUE
    ELSE \E w \in Vocabulary :
            /\ w[current_col + 1] = Upper(k)
            /\ \A c \in 0 .. (current_col - 1) : tiles[current_row][c].letter = w[c + 1]

\* submit_guess: if not self.is_row_complete() or not self._target_word
SubmitRejects == ~is_row_complete \/ board_target = <<>>

\* submit_guess up to "await asyncio.gather(*tasks)": the guess is read and
\* evaluated, one reveal per tile of the current row is scheduled.
Begun(kind) ==
    [kind |-> kind, pc |-> "reveal", row |-> current_row,
     guess |-> get_current_guess,
     feedback |-> evaluate_guess(get_current_guess, board_target),
     revealed |-> 0, attempts |-> 0]

\* tile.reveal(state, delay) of the next column, delay = col * 0.2.
RevealTile(i) ==
    /\ i \in 1 .. Len(tasks)
    /\ tasks[i].pc = "reveal"
    /\ tasks[i].revealed < WordLen
    /\ tiles' = [tiles EXCEPT ![tasks[i].row][tasks[i].revealed] =
                    reveal(@, tasks[i].feedback[tasks[i].revealed + 1])]
    /\ tasks' = [tasks EXCEPT ![i].revealed = @ + 1]
    /\ UNCHANGED <<current_row, current_col, guesses, board_target, last, racing>>
    /\ UNCHANGED screenVars
    /\ UNCHANGED otherVars

\* A submit_guess that advances the cursor without recording the guess.
submit_guess_end_no_append(t) ==
    /\ guesses' = guesses
    /\ current_row' = current_row + 1
    /\ current_col' = 0
    /\ UNCHANGED <<tiles, board_target>>

\* A submit_guess that leaves the cursor's column where it was.
submit_guess_end_keep_col(t) ==
    /\ guesses' = Append(guesses, t.guess)
    /\ current_row' = current_row + 1
    /\ current_col' = current_col
    /\ UNCHANGED <<tiles, board_target>>

\* What submit_guess returns: won, feedback.
submit_guess_returns(t) == <<t.guess = board_target, t.feedback>>

\* submit_guess after the gather: append, advance the cursor.
submit_guess_end(t) ==
    /\ guesses' = Append(guesses, t.guess)
    /\ current_row' = current_row + 1
    /\ current_col' = 0
    /\ UNCHANGED <<tiles, board_target>>

(***************************************************************************)
(* The board called directly, one call after the other                     *)
(***************************************************************************)

CallAddLetter(k) ==
    /\ tasks = <<>>
    /\ Typable(k)
    /\ add_letter(k)
    /\ last' = [op |-> "add_letter", arg |-> <<k>>, ret |-> add_letter_returns]
    /\ UNCHANGED <<tasks, racing>>
    /\ UNCHANGED screenVars
    /\ UNCHANGED otherVars

CallRemoveLetter ==
    /\ tasks = <<>>
    /\ remove_letter
    /\ last' = [op |-> "remove_letter", arg |-> <<>>, ret |-> remove_letter_returns]
    /\ UNCHANGED <<tasks, racing>>
    /\ UNCHANGED screenVars
    /\ UNCHANGED otherVars

\* A refused submit_guess that also empties the cursor's row position.
submit_guess_refused_reset ==
    /\ current_col' = 0
    /\ UNCHANGED <<current_row, tiles, guesses, board_target>>

\* submit_guess: return False, []
submit_guess_refused == UNCHANGED boardVars

CallSubmitGuess ==
    /\ tasks = <<>>
    /\ IF SubmitRejects
       THEN /\ submit_guess_refused
            /\ last' = [op |-> "submit_guess", arg |-> <<>>, ret |-> <<FALSE, <<>>>>]
            /\ UNCHANGED tasks
       ELSE /\ tasks' = <<Begun("board")>>
            /\ last' = [op |-> "submit_guess", arg |-> <<>>, ret |-> <<>>]
            /\ UNCHANGED boardVars
    /\ UNCHANGED racing
    /\ UNCHANGED screenVars
    /\ UNCHANGED otherVars

CallSubmitGuessEnd(i) ==
    /\ i \in 1 .. Len(tasks)
    /\ tasks[i].kind = "board"
    /\ tasks[i].pc = "reveal"
    /\ tasks[i].revealed = WordLen
    /\ submit_guess_end(tasks[i])
    /\ last' = [op |-> "submit_guess", arg |-> <<>>, ret |-> submit_guess_returns(tasks[i])]
    /\ tasks' = RemoveAt(tasks, i)
    /\ UNCHANGED racing
    /\ UNCHANGED screenVars
    /\ UNCHANGED otherVars

\* A fresh board, with or without set_target called.
InitBoard ==
    /\ current_row = 0
    /\ current_col = 0
    /\ tiles = [r \in Rows |-> [c \in Cols |-> BlankTile]]
    /\ guesses = <<>>
    /\ board_target \in Targets \cup {<<>>}
    /\ key_states = [l \in KeyboardLetters |-> "unused"]
    /\ game_over = FALSE
    /\ won = FALSE
    /\ valid_words = {}
    /\ tasks = <<>>
    /\ last = [op |-> "none", arg |-> <<>>, ret |-> <<>>]
    /\ racing = 0
    /\ InitApp("game")
    /\ InitServer
    /\ InitEvalIdle

NextBoard ==
    \/ \E k \in Keys : CallAddLetter(k)
    \/ CallRemoveLetter
    \/ CallSubmitGuess
    \/ RevealTile(1)
    \/ CallSubmitGuessEnd(1)

SpecBoard == InitBoard /\ [][NextBoard]_vars

(***************************************************************************)
(* GameScreen: key events, and the tasks that Enter creates, interleaved   *)
(* at the tasks' awaits                                                    *)
(***************************************************************************)

\* asyncio.create_task(self._submit_guess()): a task that has not run yet.
NewTask ==
    [kind |-> "screen", pc |-> "new", row |-> 0, guess |-> <<>>,
     feedback |-> <<>>, revealed |-> 0, attempts |-> 0]

\* A key event that takes effect while a task is pending is counted.
Race ==
    IF tasks # <<>>
    THEN /\ racing < MaxRacingKeys
         /\ racing' = racing + 1
    ELSE UNCHANGED racing

\* on_key while game_over: Enter leaves the application, other keys do nothing.
KeyIgnored(key, outcome) ==
    /\ last' = [op |-> "on_key", arg |-> key, ret |-> outcome]
    /\ UNCHANGED <<boardVars, tasks, racing>>

\* on_key with a letter key
KeyLetter(k) ==
    /\ IF game_over
       THEN KeyIgnored(<<k>>, "ignored")
       ELSE /\ Typable(k)
            /\ add_letter(k)
            /\ Race
            /\ UNCHANGED <<tasks, last>>
    /\ UNCHANGED screenVars
    /\ UNCHANGED otherVars

\* on_key with "backspace"
KeyBackspace ==
    /\ IF game_over
       THEN KeyIgnored(<<>>, "ignored")
       ELSE /\ remove_letter
            /\ Race
            /\ UNCHANGED <<tasks, last>>
    /\ UNCHANGED screenVars
    /\ UNCHANGED otherVars

\* on_key with "enter": a task is created for _submit_guess.
KeyEnter ==
    /\ IF game_over
       THEN KeyIgnored(<<>>, "exit")
       ELSE /\ tasks' = Append(tasks, NewTask)
            /\ Race
            /\ UNCHANGED <<boardVars, last>>
    /\ UNCHANGED screenVars
    /\ UNCHANGED otherVars

\* The word check that lets every word through.
NotInWordListNever(guess) == FALSE

\* _submit_guess: if valid_words and guess not in valid_words
NotInWordList(guess) == valid_words # {} /\ guess \notin valid_words

\* _submit_guess from its start to its first await; tasks start in the order
\* of their creation.
TaskStart(i) ==
    /\ i \in 1 .. Len(tasks)
    /\ tasks[i].pc = "new"
    /\ \A j \in 1 .. (i - 1) : tasks[j].pc # "new"
    /\ IF ~is_row_complete
       THEN /\ game_message' = "Not enough letters"
            /\ tasks' = RemoveAt(tasks, i)
            /\ UNCHANGED boardVars
       ELSE IF NotInWordList(get_current_guess)
       THEN \* await self.board.shake_row()
            /\ game_message' = "Not in word list"
            /\ tasks' = [tasks EXCEPT ![i].pc = "shake"]
            /\ UNCHANGED boardVars
       ELSE IF SubmitRejects
       THEN /\ submit_guess_refused
            /\ tasks' = RemoveAt(tasks, i)
            /\ UNCHANGED game_message
       ELSE /\ tasks' = [tasks EXCEPT ![i] = Begun("screen")]
            /\ UNCHANGED boardVars
            /\ UNCHANGED game_message
    /\ UNCHANGED <<last, racing>>
    /\ UNCHANGED screenVars
    /\ UNCHANGED <<evalVars, serverVars, logVars>>
    /\ UNCHANGED <<startup, screen, saved_guesses, restored, wall, timer,
                   elapsed_seconds, header_timer, saves, submitted>>

\* await self.board.shake_row() is over: the task ends.
ShakeEnd(i) ==
    /\ i \in 1 .. Len(tasks)
    /\ tasks[i].pc = "shake"
    /\ tasks' = RemoveAt(tasks, i)
    /\ UNCHANGED <<boardVars, last, racing>>
    /\ UNCHANGED screenVars
    /\ UNCHANGED otherVars

\* The board counted as full one row too late.
OutOfRowsAfterSeven(row) == row > MaxRows

\* _submit_guess: elif self.board.current_row >= 6
OutOfRows(row) == row >= MaxRows

\* The json of WordleAPIClient.submit_game, as _submit_and_show_result fills
\* it: the guess list is the board's at the moment of the call.
SubmitRequest(attempts, solved, gs) ==
    [attempts |-> attempts, solved |-> solved,
     time_seconds |-> elapsed_seconds, guess_history |-> gs]

\* _submit_and_show_result up to its await: in a session with token and
\* word_id (online = TRUE) the request is sent, otherwise nothing is.
Sent(online, attempts, solved, gs) ==
    IF online THEN Append(submitted, SubmitRequest(attempts, solved, gs))
    ELSE submitted

\* bounce_row returns without an await when the row is not on the board.
BounceSkipped(row_idx) == row_idx < 0 \/ row_idx >= MaxRows

\* The gather of board.submit_guess is over: the board takes the guess, and
\* _submit_guess goes on to the keyboard and to the end of the game (on a win
\* it waits in bounce_row first), or creates the task of _auto_save_progress.
\* In a session without token or word_id (online = FALSE) that task returns
\* as soon as it runs.
ScreenSubmitEndWith(i, online) ==
    /\ i \in 1 .. Len(tasks)
    /\ tasks[i].kind = "screen"
    /\ tasks[i].pc = "reveal"
    /\ tasks[i].revealed = WordLen
    /\ submit_guess_end(tasks[i])
    /\ key_states' = update_from_guess(key_states, tasks[i].guess, tasks[i].feedback)
    /\ IF submit_guess_returns(tasks[i])[1]
       THEN /\ game_over' = TRUE
            /\ won' = TRUE
            /\ IF BounceSkipped(Len(guesses') - 1)
               THEN /\ tasks' = [tasks EXCEPT ![i].pc = "result",
                                              ![i].attempts = Len(guesses')]
                    /\ submitted' = Sent(online, Len(guesses'), TRUE, guesses')
               ELSE /\ tasks' = [tasks EXCEPT ![i].pc = "bounce",
                                              ![i].attempts = Len(guesses')]
                    /\ UNCHANGED submitted
            /\ UNCHANGED saves
       ELSE IF OutOfRows(current_row')
       THEN /\ game_over' = TRUE
            /\ won' = won
            /\ tasks' = [tasks EXCEPT ![i].pc = "result", ![i].attempts = MaxRows]
            /\ submitted' = Sent(online, MaxRows, FALSE, guesses')
            /\ UNCHANGED saves
       ELSE \* asyncio.create_task(self._auto_save_progress())
            /\ UNCHANGED <<game_over, won, submitted>>
            /\ tasks' = RemoveAt(tasks, i)
            /\ saves' = IF online THEN Append(saves, "new") ELSE saves
    /\ UNCHANGED <<valid_words, last, racing>>
    /\ UNCHANGED <<evalVars, serverVars, logVars>>
    /\ UNCHANGED <<startup, screen, saved_guesses, restored, wall, timer,
                   elapsed_seconds, header_timer, game_message>>

ScreenSubmitEnd(i) == ScreenSubmitEndWith(i, FALSE)

\* bounce_row is over: _submit_and_show_result is called with the attempts
\* counted before the bounce and reads the board's guesses now.
BounceEndWith(i, online) ==
    /\ i \in 1 .. Len(tasks)
    /\ tasks[i].pc = "bounce"
    /\ tasks' = [tasks EXCEPT ![i].pc = "result"]
    /\ submitted' = Sent(online, tasks[i].attempts, TRUE, guesses)
    /\ UNCHANGED <<boardVars, last, racing>>
    /\ UNCHANGED screenVars
    /\ UNCHANGED <<evalVars, serverVars, logVars>>
    /\ UNCHANGED <<startup, screen, saved_guesses, restored, wall, timer,
                   elapsed_seconds, header_timer, game_message, saves>>

BounceEnd(i) == BounceEndWith(i, FALSE)

\* The request of _submit_and_show_result is answered or has failed, the
\* result screen is shown: the task ends.
ResultEnd(i) ==
    /\ i \in 1 .. Len(tasks)
    /\ tasks[i].pc = "result"
    /\ tasks' = RemoveAt(tasks, i)
    /\ UNCHANGED <<boardVars, last, racing>>
    /\ UNCHANGED screenVars
    /\ UNCHANGED otherVars

\* GameScreen.on_mount with no saved guesses: the target is set, the
\* dictionary is whatever the word file holds.
InitClient ==
    /\ current_row = 0
    /\ current_col = 0
    /\ tiles = [r \in Rows |-> [c \in Cols |-> BlankTile]]
    /\ guesses = <<>>
    /\ board_target \in Targets
    /\ key_states = [l \in KeyboardLetters |-> "unused"]
    /\ game_over = FALSE
    /\ won = FALSE
    /\ valid_words \in Dictionaries
    /\ tasks = <<>>
    /\ last = [op |-> "none", arg |-> <<>>, ret |-> <<>>]
    /\ racing = 0
    /\ InitApp("game")
    /\ InitServer
    /\ InitEvalIdle

NextClient ==
    \/ \E k \in Keys : KeyLetter(k)
    \/ KeyBackspace
    \/ KeyEnter
    \/ \E i \in 1 .. MaxTasks :
          \/ TaskStart(i)
          \/ RevealTile(i)
          \/ ScreenSubmitEnd(i)
          \/ ShakeEnd(i)
          \/ BounceEnd(i)
          \/ ResultEnd(i)

SpecClient == InitClient /\ [][NextClient]_vars

(***************************************************************************)
(* Properties of the board called directly (checked under SpecBoard)       *)
(***************************************************************************)

\* The letters of a row of tiles, as a word.
RowWord(r) == [i \in 1..WordLen |-> tiles[r][i - 1].letter]

\* The last call was submit_guess and it returned a verdict for every column.
SubmitSucceeded ==
    /\ last.op = "submit_guess"
    /\ Len(last.ret) = 2
    /\ Len(last.ret[2]) = WordLen

\* A call of submit_guess returns in this step.
SubmitReturns == tasks # <<>> /\ tasks' = <<>>

\* C12: in every state of the board, over any sequence of add_letter,
\* remove_letter and submit_guess calls, len(guesses) = current_row, and
\* right after a submit_guess that succeeded current_col = 0.
C12_GuessesMatchRow ==
    /\ Len(guesses) = current_row
    /\ (SubmitSucceeded /\ tasks = <<>> => current_col = 0)

C12_Witness ==
    /\ SubmitSucceeded
    /\ tasks = <<>>
    /\ current_row = 2
    /\ guesses = <<CRANE, CRATE>>

\* C14: a submit_guess on a complete row with a target set appends the
\* row's word to guesses, sets the row's tiles to the evaluator's verdicts and
\* returns them, moves current_row up by exactly one, resets current_col to
\* 0, leaves the target and the earlier guesses as they were and returns
\* won = (guess = target).
C14_SubmitGuessEffect ==
    [][SubmitReturns =>
        LET word == RowWord(current_row)
            verdicts == evaluate_guess(word, board_target)
        IN /\ guesses' = Append(guesses, word)
           /\ last'.ret = <<word = board_target, verdicts>>
           /\ \A c \in Cols : tiles'[current_row][c] =
                                [letter |-> word[c + 1], state |-> verdicts[c + 1]]
           /\ current_row' = current_row + 1
           /\ current_col' = 0
           /\ board_target' = board_target
           /\ SubSeq(guesses', 1, Len(guesses)) = guesses]_vars

C14_Witness ==
    /\ SubmitSucceeded
    /\ tasks = <<>>
    /\ board_target = CRANE
    /\ guesses = <<CRATE, CRANE>>
    /\ last.ret[1] = TRUE
    /\ tiles[0][3].state = ABSENT
    /\ tiles[1][3].state = CORRECT

\* A call of the board's method `op` is made in this step.
Calls(op) == tasks = <<>> /\ last'.op = op

\* C17: submit_guess on a row with fewer than 5 letters, or with no target
\* set, returns (False, []) and leaves current_row, current_col, guesses, the
\* tiles and the keyboard's key states as they were.
C17_IncompleteRowRejected ==
    [][Calls("submit_guess") /\ (current_col < WordLen \/ board_target = <<>>) =>
        /\ last'.ret = <<FALSE, <<>>>>
        /\ tasks' = <<>>
        /\ UNCHANGED <<current_row, current_col, guesses, tiles, key_states>>]_vars

C17_Witness ==
    /\ last.op = "submit_guess"
    /\ last.ret = <<FALSE, <<>>>>
    /\ tasks = <<>>
    /\ board_target = CRANE
    /\ current_row = 1
    /\ current_col = 4

\* C19: add_letter returns False and changes nothing when current_row >= 6
\* or current_col >= 5; otherwise it writes the (upper-cased) letter into
\* cell (current_row, current_col), moves current_col up by one and leaves
\* current_row, guesses and every other cell as they were.
C19_AddLetterEffect ==
    [][Calls("add_letter") =>
        IF current_row >= MaxRows \/ current_col >= WordLen
        THEN /\ last'.ret = FALSE
             /\ UNCHANGED <<current_row, current_col, guesses, tiles, board_target>>
        ELSE /\ last'.ret = TRUE
             /\ tiles'[current_row][current_col].letter = Upper(last'.arg[1])
             /\ current_col' = current_col + 1
             /\ UNCHANGED <<current_row, guesses>>
             /\ \A r \in Rows, c \in Cols :
                   <<r, c>> # <<current_row, current_col>> => tiles'[r][c] = tiles[r][c]]_vars

\* add_letter refused on a full row, and accepted on the next row.
C19_Witness ==
    /\ last.op = "add_letter"
    /\ last.ret = FALSE
    /\ current_row = 1
    /\ current_col = WordLen
    /\ tiles[1][3].letter = 84

\* C20: remove_letter returns False and changes nothing when
\* current_col = 0; otherwise it moves current_col down by one and clears
\* exactly the cell (current_row, new current_col): current_row, guesses and
\* the cells of every other row, the submitted rows among them, stay as they
\* were.
C20_RemoveLetterEffect ==
    [][Calls("remove_letter") =>
        IF current_col = 0
        THEN /\ last'.ret = FALSE
             /\ UNCHANGED <<current_row, current_col, guesses, tiles, board_target>>
        ELSE /\ last'.ret = TRUE
             /\ current_col' = current_col - 1
             /\ tiles'[current_row][current_col'] = BlankTile
             /\ UNCHANGED <<current_row, guesses>>
             /\ \A r \in Rows, c \in Cols :
                   <<r, c>> # <<current_row, current_col'>> => tiles'[r][c] = tiles[r][c]]_vars

\* A letter removed from the second row, below a submitted first row.
C20_Witness ==
    /\ last.op = "remove_letter"
    /\ last.ret = TRUE
    /\ current_row = 1
    /\ current_col = 3
    /\ tiles[1][3] = BlankTile
    /\ tiles[0][3].state \in {CORRECT, ABSENT}

(***************************************************************************)
(* Properties of the game screen (checked under SpecClient)                *)
(***************************************************************************)

\* C13: in every state of the client, key events and pending submissions
\* interleaved, 0 <= current_row <= 6, 0 <= current_col <= 5 and the board
\* holds at most 6 guesses.
C13_CursorInBounds ==
    /\ current_row \in 0 .. MaxRows
    /\ current_col \in 0 .. WordLen
    /\ Len(guesses) <= MaxRows

\* A guess equalled the target, or six guesses were submitted.
Terminal ==
    \/ \E i \in 1 .. Len(guesses) : guesses[i] = board_target
    \/ Len(guesses) >= MaxRows

\* C15: once the session is terminal, no step (no key event, no task still
\* pending) changes current_row, current_col, the guesses, a tile or a key
\* state.
C15_TerminalAbsorbing ==
    [][Terminal =>
        UNCHANGED <<current_row, current_col, guesses, tiles, key_states>>]_vars

\* Six guesses were submitted and none of them is the target.
LostAfterSix ==
    /\ Len(guesses) = MaxRows
    /\ \A i \in 1 .. Len(guesses) : guesses[i] # board_target

\* A key event: a letter, Backspace or Enter.
KeyEvent == (\E k \in Keys : KeyLetter(k)) \/ KeyBackspace \/ KeyEnter

\* C16: after exactly six submitted guesses, none the target, the session
\* is over with won = false, and a further letter, Backspace or Enter (a 7th
\* guess) is refused: current_row stays 6, the six guesses, the tiles and
\* the pending tasks stay as they are.
C16_SeventhGuessRejected ==
    [][/\ LostAfterSix' => game_over' /\ ~won'
       /\ LostAfterSix /\ KeyEvent =>
            /\ current_row' = MaxRows
            /\ UNCHANGED <<current_row, current_col, guesses, tiles, key_states, tasks>>]_vars

\* Enter pressed after the sixth losing guess.
C16_Witness ==
    /\ LostAfterSix
    /\ current_row = MaxRows
    /\ game_over
    /\ ~won
    /\ last.op = "on_key"
    /\ last.ret = "exit"

\* _submit_guess starts, as task i, on a complete row whose word the
\* dictionary does not hold.
StartsOnUnknownWord(i) ==
    /\ TaskStart(i)
    /\ is_row_complete
    /\ get_current_guess \notin valid_words

\* The task is turned away before evaluation: no verdicts, the board and
\* the keyboard as they were.
TurnedAway(i) ==
    /\ Len(tasks') = Len(tasks)
    /\ tasks'[i].pc = "shake"
    /\ tasks'[i].feedback = <<>>
    /\ UNCHANGED <<current_row, current_col, guesses, tiles, key_states>>

\* C18 as claimed: a complete row whose word is not in the dictionary is
\* turned away before evaluation, whatever the dictionary holds.
C18_UnknownWordRejected ==
    [][\A i \in 1 .. MaxTasks : StartsOnUnknownWord(i) => TurnedAway(i)]_vars

\* C18 amended: a complete row whose word is not in a dictionary that holds
\* at least one word is turned away before evaluation.
C18_UnknownWordRejectedIfLoaded ==
    [][\A i \in 1 .. MaxTasks :
          StartsOnUnknownWord(i) /\ valid_words # {} => TurnedAway(i)]_vars

\* CRATE typed and refused with a dictionary that holds only CRANE.
C18_Witness ==
    /\ valid_words = {CRANE}
    /\ tasks # <<>>
    /\ tasks[1].pc = "shake"
    /\ current_row = 0
    /\ current_col = WordLen
    /\ RowWord(0) = CRATE
    /\ guesses = <<>>

(***************************************************************************)
(* The keyboard fed guess after guess, as _submit_guess feeds it           *)
(***************************************************************************)

\* Guesses and targets of the keyboard's runs.
KeyboardWords == {CRANE, CRATE, ERASE, SPEED, XXXXX}

InitKeyboard ==
    /\ current_row = 0
    /\ current_col = 0
    /\ tiles = [r \in Rows |-> [c \in Cols |-> BlankTile]]
    /\ guesses = <<>>
    /\ board_target \in KeyboardWords
    /\ key_states = [l \in KeyboardLetters |-> "unused"]
    /\ game_over = FALSE
    /\ won = FALSE
    /\ valid_words = {}
    /\ tasks = <<>>
    /\ last = [op |-> "none", arg |-> <<>>, ret |-> <<>>]
    /\ racing = 0
    /\ InitApp("game")
    /\ InitServer
    /\ InitEvalIdle

\* self.keyboard.update_from_guess(guess, feedback) for one more submitted
\* guess, as long as the game goes on.
GuessScored(w) ==
    /\ Len(guesses) < MaxRows
    /\ \A i \in 1 .. Len(guesses) : guesses[i] # board_target
    /\ guesses' = Append(guesses, w)
    /\ key_states' = update_from_guess(key_states, w, evaluate_guess(w, board_target))
    /\ UNCHANGED <<current_row, current_col, tiles, board_target, game_over, won,
                   valid_words, tasks, last, racing>>
    /\ UNCHANGED otherVars

NextKeyboard == \E w \in KeyboardWords : GuessScored(w)

SpecKeyboard == InitKeyboard /\ [][NextKeyboard]_vars

\* The verdicts of the guesses gs against target, one sequence per guess.
Feedbacks(gs, target) == [i \in 1 .. Len(gs) |-> evaluate_guess(gs[i], target)]

\* The verdicts letter l received in them.
VerdictsOf(l, gs, fb) ==
    {fb[p[1]][p[2]] : p \in {q \in (1 .. Len(gs)) \X (1 .. WordLen) : gs[q[1]][q[2]] = l}}

\* The highest of a set of verdicts in the order UNUSED < ABSENT < PRESENT < CORRECT.
BestVerdict(verdicts) ==
    IF CORRECT \in verdicts THEN "correct"
    ELSE IF PRESENT \in verdicts THEN "present"
    ELSE IF ABSENT \in verdicts THEN "absent"
    ELSE "unused"

\* The rank of a key state in that order.
KeyRank(state_str) ==
    IF state_str = "correct" THEN 3
    ELSE IF state_str = "present" THEN 2
    ELSE IF state_str = "absent" THEN 1
    ELSE 0

\* Keyboard ks shows, for every letter, the best verdict of the guesses gs.
KeyboardIsBest(ks, gs, target) ==
    LET fb == Feedbacks(gs, target)
    IN \A l \in KeyboardLetters : ks[l] = BestVerdict(VerdictsOf(l, gs, fb))

\* C21: after any sequence of submitted guesses every key shows the highest
\* verdict its letter received so far; no step moves a key down, and a key
\* that is CORRECT stays CORRECT.
C21_KeyboardBestVerdict ==
    [][/\ KeyboardIsBest(key_states', guesses', board_target')
       /\ \A l \in KeyboardLetters :
             /\ KeyRank(key_states'[l]) >= KeyRank(key_states[l])
             /\ key_states[l] = "correct" => key_states'[l] = "correct"]_vars

\* E was CORRECT in CRANE and only PRESENT in the later SPEED.
C21_Witness ==
    /\ board_target = ERASE
    /\ guesses = <<CRANE, SPEED>>
    /\ key_states[69] = "correct"
    /\ key_states[83] = "present"
    /\ key_states[80] = "absent"
    /\ key_states[88] = "unused"

(***************************************************************************)
(* Submissions of results: ranks and streaks.  Handlers interleave at      *)
(* their awaits.                                                           *)
(*   SpecRank   several players submit their results of one word           *)
(*   SpecDaily  one player submits results of several words over several   *)
(*              days; a request is over within the day it arrived          *)
(***************************************************************************)

\* The last day of SpecDaily.
MaxDays == 3

Players == {"u1", "u2", "u3"}

\* request.word_id: the client names the word it submits a result for.
DailyWords == {1, 2, 3}

\* The submit bodies of these requests: solved or not.
RankBodies ==
    {b \in SubmitBodies :
        b.attempts = 1 /\ b.time_seconds = None /\ b.guess_history = <<"CRANE">>}

InitSubmit ==
    /\ game_results = {}
    /\ game_progress = {}
    /\ user_streaks = [u \in Players |-> None]
    /\ today = 1
    /\ clock = 0
    /\ req = [r \in Reqs |-> BlankReq]
    /\ incoming = None
    /\ accepted = [k \in Pairs |-> None]
    /\ InitEvalIdle
    /\ InitClientIdle

Quiet == \A r \in Reqs : req[r].pc \in {"idle", "done"}

\* Midnight: date.today() moves on.
NextDay ==
    /\ Quiet
    /\ today < MaxDays
    /\ today' = today + 1
    /\ UNCHANGED <<game_results, game_progress, user_streaks, clock, req>>
    /\ UNCHANGED evalVars
    /\ UNCHANGED clientVars

\* A step of a submit request of one of users for one of words.
StepSubmit(r, users, words) ==
    \/ BeginWith(r, {"submit"}, users, words)
    \/ SubmitFlushWith(r, RankBodies)
    \/ SubmitCommit(r)
    \/ SubmitRank(r)
    \/ SubmitStreakLoad(r)
    \/ SubmitStreakCommit(r)
    \/ SubmitRespond(r)

NextRank == \E r \in Reqs : StepSubmit(r, Players, WordIds) /\ UNCHANGED logVars

SpecRank == InitSubmit /\ [][NextRank]_vars

NextDaily ==
    \/ \E r \in Reqs : StepSubmit(r, Users, DailyWords) /\ UNCHANGED logVars
    \/ NextDay /\ UNCHANGED logVars

SpecDaily == InitSubmit /\ [][NextDaily]_vars

(***************************************************************************)
(* Properties of ranks (checked under SpecRank)                            *)
(***************************************************************************)

\* The persisted results of game's word completed strictly before it.
EarlierResults(game) ==
    {g \in game_results : g.word_id = game.word_id /\ g.completed_at < game.completed_at}

\* Request r computes its rank in this step.
RankStep(r) == req[r].pc = "sg_rank" /\ req'[r].pc = "sg_streak"

\* C22: the rank computed for a newly persisted game is 0 when the game is not
\* solved, and otherwise 1 + the number of persisted results of the same word
\* that are solved and were completed strictly earlier: the earlier results of
\* the word, less the unsolved ones.
C22_RankCountsEarlierSolved ==
    [][\A r \in Reqs :
          RankStep(r) =>
             LET game == req[r].game[1]
                 earlier == EarlierResults(game)
             IN req'[r].rank =
                   IF game.solved
                   THEN 1 + Cardinality(earlier)
                          - Cardinality({g \in earlier : ~g.solved})
                   ELSE 0]_vars

\* A solved game got rank 2: one earlier result of the word is solved,
\* another is not.
C22_Witness ==
    \E r \in Reqs :
        /\ req[r].pc = "sg_streak"
        /\ req[r].game[1].solved
        /\ req[r].rank = 2
        /\ Cardinality(EarlierResults(req[r].game[1])) = 2

\* Request r was answered with its rank.
Returned(r) == req[r].op = "submit" /\ req[r].pc = "done" /\ req[r].status = 200

\* The persisted result of the pair request r submitted.
ResultOfReq(r) == Scalar(ResultsOf(req[r].user, req[r].word))[1]

\* The place of a solved result among the solved results of its word, by
\* completion timestamp.
PlaceOf(game) == 1 + Cardinality({g \in EarlierResults(game) : g.solved})

\* C23: once the submissions are answered, the rank returned for a solved
\* result is its place among the solved results of the word by completion
\* timestamp (so the ranks are 1..N, each once), and an unsolved result got
\* rank 0.
C23_RanksAreTimestampOrder ==
    Quiet =>
       \A r \in Reqs :
          Returned(r) =>
             req[r].rank = IF ResultOfReq(r).solved THEN PlaceOf(ResultOfReq(r)) ELSE 0

(***************************************************************************)
(* Properties of streaks (checked under SpecDaily)                         *)
(***************************************************************************)

\* Request r's update_streak writes the record in this step.
StreakStep(r) == req[r].pc = "sg_streak_commit" /\ req'[r].pc = "sg_respond"

\* C24: update_streak, writing to the record it read, sets current_streak to
\* 0 for a game that is not solved; for a solved game to 1 when the user has
\* no record or last played before yesterday, and to the previous
\* current_streak + 1 when the user last played yesterday.
C24_CurrentStreak ==
    [][\A r \in Reqs :
          StreakStep(r) /\ req[r].streak = user_streaks[req[r].user] =>
             LET previous == user_streaks[req[r].user]
                 now == user_streaks'[req[r].user][1]
             IN IF ~req[r].game[1].solved THEN now.current_streak = 0
                ELSE IF previous = None THEN now.current_streak = 1
                ELSE /\ previous[1].last_played[1] = today - 1
                           => now.current_streak = previous[1].current_streak + 1
                     /\ previous[1].last_played[1] < today - 1
                           => now.current_streak = 1]_vars

\* Solved on two days in a row and nothing else.
C24_Witness ==
    /\ Quiet
    /\ user_streaks["u1"] # None
    /\ user_streaks["u1"][1].total_games = 2
    /\ user_streaks["u1"][1].current_streak = 2
    /\ user_streaks["u1"][1].last_played = Some(2)
    /\ Cardinality(game_results) = 2

\* C25: every update_streak leaves longest_streak at the larger of its value
\* before and the new current_streak; so longest_streak is at least
\* current_streak and never goes down.
C25_LongestStreak ==
    [][\A r \in Reqs :
          StreakStep(r) =>
             LET previous == user_streaks[req[r].user]
                 before == IF previous = None THEN 0 ELSE previous[1].longest_streak
                 now == user_streaks'[req[r].user][1]
             IN /\ now.longest_streak = Max(before, now.current_streak)
                /\ now.longest_streak >= now.current_streak
                /\ now.longest_streak >= before]_vars

\* Two wins in a row, then a loss.
C25_Witness ==
    /\ user_streaks["u1"] # None
    /\ user_streaks["u1"][1].longest_streak = 2
    /\ user_streaks["u1"][1].current_streak = 0

\* The number of games the streak record of u counts.
TotalGames(u) == IF user_streaks[u] = None THEN 0 ELSE user_streaks[u][1].total_games

\* C26: whenever no request is being handled, every user's total_games is the
\* number of that user's persisted results.
C26_TotalGamesCountsResults ==
    Quiet =>
       \A u \in Players :
          TotalGames(u) = Cardinality({g \in game_results : g.user_id = u})

(***************************************************************************)
(* The application's start-up for a logged-in player:                      *)
(* _fetch_server_word_and_start asks the server for today's word and for   *)
(* today's progress, then opens the game or the result screen.             *)
(*   SpecApp  the start-up against a server that holds any result and any  *)
(*            progress of the player for today's word                      *)
(***************************************************************************)

\* The statuses a start-up request is answered with: 200, 401, 500, and 0 for
\* a request that raises (no connection, timeout).
Statuses == {200, 401, 500, 0}

\* The results and the progress rows the server may hold for the player.
StoredResults == {NewGameResult(1, "u1", 1, b, 1) : b \in SubmitBodies}

StoredProgress == {NewProgress("u1", 1, b) : b \in SaveBodies}

\* GET /games/progress/today
get_today_progress(u) ==
    LET blank == [has_progress |-> FALSE, guesses |-> <<>>,
                  completed |-> FALSE, result |-> None]
    IN IF TodayWord = None THEN blank
       ELSE LET existing_result == ExistingResult(u, TodayWord[1])
                progress == Scalar(ProgressOf(u, TodayWord[1]))
            IN IF existing_result # None
               THEN [has_progress |-> FALSE, guesses |-> <<>>, completed |-> TRUE,
                     result |-> Some([attempts |-> existing_result[1].attempts,
                                      solved |-> existing_result[1].solved,
                                      time_seconds |-> existing_result[1].time_seconds,
                                      guess_history |-> existing_result[1].guess_history])]
               ELSE IF progress # None /\ progress[1].guesses # <<>>
               THEN [blank EXCEPT !.has_progress = TRUE, !.guesses = progress[1].guesses]
               ELSE blank

\* The server's tables as earlier sessions left them.
InitAppServer ==
    /\ game_results \in {{}} \cup {{g} : g \in StoredResults}
    /\ game_progress \in {{}} \cup {{p} : p \in StoredProgress}
    /\ user_streaks = [u \in Users |-> None]
    /\ today = 1
    /\ clock = 1
    /\ req = [r \in Reqs |-> BlankReq]
    /\ incoming = None
    /\ accepted = [k \in Pairs |-> None]

InitAppClient ==
    /\ current_row = 0
    /\ current_col = 0
    /\ tiles = [r \in Rows |-> [c \in Cols |-> BlankTile]]
    /\ guesses = <<>>
    /\ board_target = <<>>
    /\ key_states = [l \in KeyboardLetters |-> "unused"]
    /\ game_over = FALSE
    /\ won = FALSE
    /\ valid_words = {}
    /\ tasks = <<>>
    /\ last = [op |-> "none", arg |-> <<>>, ret |-> <<>>]
    /\ racing = 0
    /\ startup = [BlankStartup EXCEPT !.pc = "words"]
    /\ screen = "none"
    /\ saved_guesses = <<>>
    /\ restored = 0
    /\ wall = 0
    /\ timer = "none"
    /\ elapsed_seconds = 0
    /\ header_timer = 0
    /\ game_message = ""
    /\ saves = <<>>
    /\ submitted = <<>>

InitAppStart == InitAppServer /\ InitAppClient /\ InitEvalIdle

\* What a start-up step leaves alone.
UnchangedByStartup ==
    /\ UNCHANGED <<current_row, current_col, tiles, guesses, board_target,
                   key_states, game_over, won, valid_words, tasks, last, racing>>
    /\ UNCHANGED <<restored, wall, timer,
                   elapsed_seconds, header_timer, game_message, saves,
                   submitted>>
    /\ UNCHANGED <<evalVars, serverVars, logVars>>

\* get_server_word_and_progress: GET /words/today is answered (or raises).
FetchWord(status) ==
    /\ startup.pc = "words"
    /\ startup' =
          IF status = 401 THEN [startup EXCEPT !.auth_failed = TRUE, !.pc = "decide"]
          ELSE IF status = 200 THEN [startup EXCEPT !.word = TRUE, !.pc = "progress"]
          ELSE IF status = 0 THEN [startup EXCEPT !.pc = "decide"]
          ELSE [startup EXCEPT !.pc = "progress"]
    /\ UNCHANGED <<screen, saved_guesses>>
    /\ UnchangedByStartup

\* get_server_word_and_progress: GET /games/progress/today is answered (or raises).
FetchProgress(status) ==
    /\ startup.pc = "progress"
    /\ startup' =
          IF status = 200
          THEN LET progress_data == get_today_progress("u1")
               IN [startup EXCEPT
                      !.progress_status = 200,
                      !.has_progress = progress_data.has_progress,
                      !.guesses = progress_data.guesses,
                      !.completed = ~progress_data.has_progress /\ progress_data.completed,
                      !.completed_result =
                          IF ~progress_data.has_progress /\ progress_data.completed
                          THEN progress_data.result ELSE None,
                      !.pc = "decide"]
          ELSE [startup EXCEPT !.progress_status = status, !.pc = "decide"]
    /\ UNCHANGED <<screen, saved_guesses>>
    /\ UnchangedByStartup

\* The completed flag never looked at.
CompletedNever(server_data) == FALSE

\* _fetch_server_word_and_start: if server_data.get("completed")
Completed(server_data) == server_data.completed

\* _fetch_server_word_and_start after the await: the login screen on an
\* authentication failure, the stored result of a completed game, or the game.
Decide ==
    /\ startup.pc = "decide"
    /\ screen' = IF startup.auth_failed THEN "login"
                 ELSE IF Completed(startup) THEN "result"
                 ELSE "game"
    /\ saved_guesses' = IF ~startup.auth_failed /\ startup.word
                        THEN startup.guesses ELSE saved_guesses
    /\ startup' = [startup EXCEPT !.pc = "done"]
    /\ UnchangedByStartup

\* _on_login with a token: the start-up begins again.
Login ==
    /\ screen = "login"
    /\ startup.pc = "done"
    /\ startup' = [BlankStartup EXCEPT !.pc = "words"]
    /\ screen' = "none"
    /\ UNCHANGED saved_guesses
    /\ UnchangedByStartup

NextApp ==
    \/ \E status \in Statuses : FetchWord(status)
    \/ \E status \in Statuses : FetchProgress(status)
    \/ Decide
    \/ Login

SpecApp == InitAppStart /\ [][NextApp]_vars

(***************************************************************************)
(* Properties of the start-up (checked under SpecApp)                      *)
(***************************************************************************)

\* The player has a result for today's word.
AlreadyPlayed == TodayWord # None /\ ExistingResult("u1", TodayWord[1]) # None

\* C27 as stated: with a result stored for the player and today's word, the
\* game screen is never opened, however the start-up requests end.
C27_NeverOpensGame == AlreadyPlayed => screen # "game"

\* C27: with a result stored for the player and today's word, a start-up
\* whose progress request is answered 200 never opens the game screen, and it
\* ends on the result screen showing the stored result.
C27_ResultShownIfAnswered ==
    AlreadyPlayed /\ startup.progress_status = 200 =>
       /\ screen # "game"
       /\ startup.pc = "done" =>
             /\ screen = "result"
             /\ startup.completed_result = get_today_progress("u1").result

\* The start-up ended on the result screen although the word request failed.
C27_Witness ==
    /\ AlreadyPlayed
    /\ startup.pc = "done"
    /\ ~startup.word
    /\ startup.progress_status = 200
    /\ screen = "result"

(***************************************************************************)
(* A game screen mounted with saved guesses: _restore_saved_guesses        *)
(* replays them while key events and the tasks of Enter go on.             *)
(*   SpecReplay  the replay interleaved with key events at its awaits      *)
(***************************************************************************)

\* Longest stored guess list the replay is given.
MaxSaved == 2

\* The stored guess lists: the server keeps whatever list it was sent.
SavedLists == UNION {[1 .. n -> Vocabulary] : n \in 1 .. MaxSaved}

\* The board as a value: cursor, tiles, guesses.
BoardNow ==
    [row |-> current_row, col |-> current_col, tiles |-> tiles, guesses |-> guesses]

\* GameBoard.add_letter on a board value.
AddLetterTo(b, letter) ==
    IF b.row >= MaxRows \/ b.col >= WordLen THEN b
    ELSE [b EXCEPT !.tiles[b.row][b.col] = set_letter(Upper(letter)),
                   !.col = @ + 1]

\* for letter in guess: self.board.add_letter(letter)
RECURSIVE TypeWord(_, _, _)
TypeWord(b, w, i) ==
    IF i > Len(w) THEN b ELSE TypeWord(AddLetterTo(b, w[i]), w, i + 1)

\* GameBoard.get_current_guess on a board value.
GuessOf(b) ==
    IF b.row >= MaxRows THEN <<>>
    ELSE UpperWord(SelectSeq([i \in 1 .. WordLen |-> b.tiles[b.row][i - 1].letter],
                             LAMBDA x : x # NoLetter))

\* submit_guess of the replay up to its gather, on a board value.
BegunOn(b) ==
    [kind |-> "restore", pc |-> "reveal", row |-> b.row,
     guess |-> GuessOf(b),
     feedback |-> evaluate_guess(GuessOf(b), board_target),
     revealed |-> 0, attempts |-> 0]

\* _restore_saved_guesses from the guess after the n-th up to its next await:
\* the letters of the guess are added and submit_guess is called; a refused
\* submit_guess returns at once and the loop goes on with the next guess.
RECURSIVE Replay(_, _)
Replay(b, n) ==
    IF n >= Len(saved_guesses) THEN [board |-> b, n |-> n, waiting |-> FALSE]
    ELSE LET typed == TypeWord(b, saved_guesses[n + 1], 1)
         IN IF typed.row >= MaxRows \/ typed.col # WordLen \/ board_target = <<>>
            THEN Replay(typed, n + 1)
            ELSE [board |-> typed, n |-> n, waiting |-> TRUE]

\* The replay has reached `out`: the board is as it left it, and the task
\* waits in submit_guess's gather or is over.
ReplayTo(i, out) ==
    /\ current_row' = out.board.row
    /\ current_col' = out.board.col
    /\ tiles' = out.board.tiles
    /\ guesses' = out.board.guesses
    /\ restored' = out.n
    /\ tasks' = IF out.waiting THEN [tasks EXCEPT ![i] = BegunOn(out.board)]
                ELSE RemoveAt(tasks, i)

\* A replay that goes on with the next guess after a winning one.
RestoreWonNever(t) == FALSE

\* _restore_saved_guesses: if won
RestoreWon(t) == submit_guess_returns(t)[1]

\* The gather of the replay's submit_guess is over: the board takes the guess,
\* the keyboard is updated with the stored guess, and the replay ends on a
\* win or goes on to the next stored guess.
RestoreSubmitEnd(i) ==
    /\ i \in 1 .. Len(tasks)
    /\ tasks[i].kind = "restore"
    /\ tasks[i].pc = "reveal"
    /\ tasks[i].revealed = WordLen
    /\ key_states' = update_from_guess(key_states, saved_guesses[restored + 1],
                                       tasks[i].feedback)
    /\ LET after == [BoardNow EXCEPT !.guesses = Append(guesses, tasks[i].guess),
                                     !.row = current_row + 1,
                                     !.col = 0]
       IN IF RestoreWon(tasks[i])
          THEN /\ game_over' = TRUE
               /\ won' = TRUE
               /\ ReplayTo(i, [board |-> after, n |-> restored + 1, waiting |-> FALSE])
          ELSE /\ UNCHANGED <<game_over, won>>
               /\ ReplayTo(i, Replay(after, restored + 1))
    /\ UNCHANGED <<board_target, valid_words, last, racing>>
    /\ UNCHANGED <<evalVars, serverVars, logVars>>
    /\ UNCHANGED <<startup, screen, saved_guesses, wall, timer,
                   elapsed_seconds, header_timer, game_message, saves,
                   submitted>>

\* GameScreen.on_mount with saved guesses, one of `lists`, and the first run
\* of the task it creates for _restore_saved_guesses, up to the task's first
\* await; the word file holds one of `dictionaries`.
InitReplayWith(lists, dictionaries) ==
    /\ board_target \in Targets
    /\ saved_guesses \in lists
    /\ LET out == Replay([row |-> 0, col |-> 0,
                          tiles |-> [r \in Rows |-> [c \in Cols |-> BlankTile]],
                          guesses |-> <<>>], 0)
       IN /\ current_row = out.board.row
          /\ current_col = out.board.col
          /\ tiles = out.board.tiles
          /\ guesses = out.board.guesses
          /\ restored = out.n
          /\ tasks = IF out.waiting THEN <<BegunOn(out.board)>> ELSE <<>>
    /\ key_states = [l \in KeyboardLetters |-> "unused"]
    /\ game_over = FALSE
    /\ won = FALSE
    /\ valid_words \in dictionaries
    /\ last = [op |-> "none", arg |-> <<>>, ret |-> <<>>]
    /\ racing = 0
    /\ startup = BlankStartup
    /\ screen = "game"
    /\ wall = 0
    /\ timer = "none"
    /\ elapsed_seconds = 0
    /\ header_timer = 0
    /\ game_message = ""
    /\ saves = <<>>
    /\ submitted = <<>>
    /\ InitServer
    /\ InitEvalIdle

InitReplay == InitReplayWith(SavedLists, {{}, {CRANE}})

NextReplay ==
    \/ \E k \in Keys : KeyLetter(k)
    \/ KeyBackspace
    \/ KeyEnter
    \/ \E i \in 1 .. MaxTasks :
          \/ TaskStart(i)
          \/ RevealTile(i)
          \/ RestoreSubmitEnd(i)
          \/ ScreenSubmitEnd(i)
          \/ ShakeEnd(i)
          \/ BounceEnd(i)
          \/ ResultEnd(i)

SpecReplay == InitReplay /\ [][NextReplay]_vars

(***************************************************************************)
(* Properties of the replay (checked under SpecReplay)                     *)
(***************************************************************************)

\* The guesses an uninterrupted session plays of the list gs: all of them, or
\* those up to the first that is the target.
RECURSIVE Played(_, _)
Played(gs, target) ==
    IF gs = <<>> THEN <<>>
    ELSE IF Head(gs) = target THEN <<Head(gs)>>
    ELSE <<Head(gs)>> \o Played(Tail(gs), target)

\* The state of an uninterrupted session after the guesses gs: cursor, guess
\* list, the letters and verdicts of the tiles, the keys.
MatchesSession(row, col, tls, gl, ks, gs, target) ==
    LET fb == Feedbacks(gs, target)
    IN /\ row = Len(gs)
       /\ col = 0
       /\ gl = gs
       /\ \A r \in Rows, c \in Cols :
             tls[r][c] = IF r < Len(gs)
                         THEN [letter |-> gs[r + 1][c + 1], state |-> fb[r + 1][c + 1]]
                         ELSE BlankTile
       /\ KeyboardIsBest(ks, gs, target)

\* The replay task ends in this step.
ReplayEnds ==
    /\ \E i \in 1 .. Len(tasks) : tasks[i].kind = "restore"
    /\ \A i \in 1 .. Len(tasks') : tasks'[i].kind # "restore"

\* C28: when the replay of the stored guesses ends, cursor, guess list, tile
\* letters, verdicts and key states are those of an uninterrupted session that
\* played the same guesses, whatever key events arrived during the replay.
C28_ReplayMatchesSession ==
    [][ReplayEnds =>
          MatchesSession(current_row', current_col', tiles', guesses', key_states',
                         Played(saved_guesses, board_target), board_target)]_vars

(***************************************************************************)
(* The game screen with its timer, and with its auto-save:                 *)
(*   SpecTimer  key events, the tasks of Enter and _run_timer              *)
(*   SpecSave   key events, the tasks of Enter and the tasks of            *)
(*              _auto_save_progress of a logged-in session                 *)
(* In both, a key event arrives when no task of Enter is pending.          *)
(***************************************************************************)

\* The last second of the clock.
MaxSeconds == 2

\* GameScreen.on_mount without saved guesses or a word file; the timer task
\* is created.
InitSession ==
    /\ current_row = 0
    /\ current_col = 0
    /\ tiles = [r \in Rows |-> [c \in Cols |-> BlankTile]]
    /\ guesses = <<>>
    /\ board_target \in Targets
    /\ key_states = [l \in KeyboardLetters |-> "unused"]
    /\ game_over = FALSE
    /\ won = FALSE
    /\ valid_words = {}
    /\ tasks = <<>>
    /\ last = [op |-> "none", arg |-> <<>>, ret |-> <<>>]
    /\ racing = 0
    /\ startup = BlankStartup
    /\ screen = "game"
    /\ saved_guesses = <<>>
    /\ restored = 0
    /\ wall = 0
    /\ timer = "ready"
    /\ elapsed_seconds = 0
    /\ header_timer = 0
    /\ game_message = ""
    /\ saves = <<>>
    /\ submitted = <<>>
    /\ InitServer
    /\ InitEvalIdle

\* What the timer and the auto-save leave alone.
UnchangedGame ==
    /\ UNCHANGED <<current_row, current_col, tiles, guesses, board_target,
                   key_states, game_over, won, valid_words, tasks, last, racing>>
    /\ UNCHANGED <<startup, screen, saved_guesses, restored>>
    /\ UNCHANGED <<evalVars, serverVars, logVars>>

\* One more second has passed since start_time.
Second ==
    /\ wall < MaxSeconds
    /\ wall' = wall + 1
    /\ UNCHANGED <<timer, elapsed_seconds, header_timer, game_message, saves,
                   submitted>>
    /\ UnchangedGame

\* A timer loop that never looks at game_over.
TimerRunsAlways == TRUE

\* _run_timer: while not self.game_over
TimerRuns == ~game_over

\* _run_timer runs: at its start, and whenever its sleep is over.  It shows
\* the elapsed time and sleeps again, or it ends.
TimerTick ==
    /\ timer \in {"ready", "sleeping"}
    /\ IF TimerRuns
       THEN /\ elapsed_seconds' = wall
            /\ header_timer' = wall
            /\ timer' = "sleeping"
       ELSE /\ timer' = "stopped"
            /\ UNCHANGED <<elapsed_seconds, header_timer>>
    /\ UNCHANGED <<wall, game_message, saves, submitted>>
    /\ UnchangedGame

\* A key event that arrives while no task of Enter is pending (the key events
\* that race with those tasks are SpecClient's).
KeyAtRest ==
    /\ tasks = <<>>
    /\ \/ \E k \in Keys : KeyLetter(k)
       \/ KeyBackspace
       \/ KeyEnter

NextTimer ==
    \/ KeyAtRest
    \/ \E i \in 1 .. MaxTasks :
          \/ TaskStart(i)
          \/ RevealTile(i)
          \/ ScreenSubmitEnd(i)
          \/ BounceEnd(i)
          \/ ResultEnd(i)
    \/ Second
    \/ TimerTick

SpecTimer == InitSession /\ [][NextTimer]_vars

\* What an auto-save request may come to: saved, refused by the server
\* ("saved": false), an error status, or an exception (no connection, timeout).
SaveOutcomes == {"saved", "refused", "status", "exception"}

\* _auto_save_progress runs up to its await: the request is sent.  The oldest
\* task that has not run yet runs first.
AutoSaveStart(j) ==
    /\ j \in 1 .. Len(saves)
    /\ saves[j] = "new"
    /\ \A h \in 1 .. (j - 1) : saves[h] # "new"
    /\ saves' = [saves EXCEPT ![j] = "sent"]
    /\ UNCHANGED <<wall, timer, elapsed_seconds, header_timer, game_message,
                   submitted>>
    /\ UnchangedGame

\* An auto-save that tells the player when it failed.
AutoSaveReportsFailure(outcome) ==
    IF outcome = "saved" THEN game_message ELSE "Could not save progress"

\* _auto_save_progress: the bool save_progress returns is dropped, and
\* "except Exception: pass": the message shown stays what it was.
AutoSaveReports(outcome) == game_message

\* The request is over, the task ends.
AutoSaveEnd(j, outcome) ==
    /\ j \in 1 .. Len(saves)
    /\ saves[j] = "sent"
    /\ saves' = RemoveAt(saves, j)
    /\ game_message' = AutoSaveReports(outcome)
    /\ UNCHANGED <<wall, timer, elapsed_seconds, header_timer, submitted>>
    /\ UnchangedGame

NextSave ==
    \/ KeyAtRest
    \/ \E i \in 1 .. MaxTasks :
          \/ TaskStart(i)
          \/ RevealTile(i)
          \/ ScreenSubmitEndWith(i, TRUE)
          \/ BounceEndWith(i, TRUE)
          \/ ResultEnd(i)
    \/ \E j \in 1 .. MaxRows :
          \/ AutoSaveStart(j)
          \/ \E outcome \in SaveOutcomes : AutoSaveEnd(j, outcome)

SpecSave == InitSession /\ [][NextSave]_vars

(***************************************************************************)
(* Properties of the timer (checked under SpecTimer) and of the auto-save  *)
(* (checked under SpecSave)                                                *)
(***************************************************************************)

\* The timer task acts in this step.
TimerActs ==
    \/ timer' # timer
    \/ elapsed_seconds' # elapsed_seconds
    \/ header_timer' # header_timer

\* C29: a step of the timer changes nothing but elapsed_seconds and the time
\* in the header: board, keyboard, game_over, won, the message and the pending
\* tasks stay as they are; and once game_over is set it changes neither
\* elapsed_seconds nor the header.
C29_TimerOnlyShowsTime ==
    [][TimerActs =>
          /\ UNCHANGED <<boardVars, key_states, game_over, won, valid_words,
                         tasks, game_message, saves>>
          /\ game_over =>
                /\ elapsed_seconds' = elapsed_seconds
                /\ header_timer' = header_timer]_vars

\* The game ended after one second was shown; the timer woke a second later
\* and stopped without showing it.
C29_Witness ==
    /\ game_over
    /\ timer = "stopped"
    /\ elapsed_seconds = 1
    /\ header_timer = 1
    /\ wall = 2

\* A task of _auto_save_progress acts in this step: it sends its request, or
\* its request is over.
AutoSaveActs == saves' # saves /\ Len(saves') <= Len(saves)

\* C30: a step of an auto-save, whatever its request comes to, changes
\* neither board nor keyboard nor game_over, shows no message, and leaves the
\* tasks and the timer as they are: the screen handles the next key event as
\* it would have without the auto-save.
C30_AutoSaveIsSilent ==
    [][AutoSaveActs =>
          UNCHANGED <<boardVars, key_states, game_over, won, valid_words,
                      tasks, last, game_message,
                      wall, timer, elapsed_seconds, header_timer>>]_vars

\* Two auto-saves are pending, one sent and one not yet, while the player
\* has typed on into the third row.
C30_Witness ==
    /\ saves = <<"sent", "new">>
    /\ Len(guesses) = 2
    /\ current_col = 2
    /\ ~game_over

(***************************************************************************)
(* Properties of the results the server stores                             *)
(***************************************************************************)

\* C31: every committed Game Result has attempts between 1 and the board's
\* six rows, and a guess_history of one to six guesses.
C31_ResultWithinSixGuesses ==
    \A g \in game_results :
        /\ g.attempts \in 1 .. MaxRows
        /\ Len(g.guess_history) \in 1 .. MaxListLen

(***************************************************************************)
(* save_progress requests of one client for one pair, their handlers       *)
(* interleaved at their awaits.  `incoming` holds the body the last        *)
(* handler to reach its write step carried.                                *)
(***************************************************************************)

\* Bodies of the racing save_progress requests.
RaceBodies == [guesses : GuessLists, elapsed_seconds : 0 .. (MaxElapsed + 1)]

\* save_progress from "if progress:" to its return, the body recorded.
RaceSaveWrite(r) ==
    \E body \in RaceBodies :
        /\ SaveWriteBody(r, body)
        /\ incoming' = Some(body)
        /\ UNCHANGED accepted

RaceStep(r) ==
    \/ BeginWith(r, {"save"}, Users, WordIds) /\ UNCHANGED logVars
    \/ SaveCheckResult(r) /\ UNCHANGED logVars
    \/ SaveLoadProgress(r) /\ UNCHANGED logVars
    \/ RaceSaveWrite(r)

NextSaves == \E r \in Reqs : RaceStep(r)

SpecSaves == Init /\ [][NextSaves]_vars

\* C32: a save_progress handler that runs its write step, whatever another
\* handler for the same pair did in between, answers 200, leaves at most one
\* snapshot row for the pair, and, when it reports the save, leaves the row
\* holding the guess list its request carried.
C32_ConcurrentSavesLastWins ==
    [][\A r \in Reqs :
          SaveWrites(r) =>
             /\ req'[r].status = 200
             /\ Cardinality(Stored(r)') <= 1
             /\ req'[r].message = "saved" =>
                   \A n \in Stored(r)' : n.guesses = incoming'[1].guesses]_vars

\* C37: no write step of a save_progress handler lowers the stored
\* elapsed_seconds or replaces the stored guess list by a list that does not
\* start with it, also when another handler for the pair committed between
\* this handler's read and its write.
C37_ConcurrentSavesOnlyAppend ==
    [][\A r \in Reqs :
          SaveWrites(r) =>
             \A st \in Stored(r) : \A n \in Stored(r)' :
                /\ n.elapsed_seconds >= st.elapsed_seconds
                /\ IsPrefix(st.guesses, n.guesses)]_vars

(***************************************************************************)
(* Properties of key events that arrive while a submission is pending      *)
(* (checked under SpecClient)                                              *)
(***************************************************************************)

\* Row r is being revealed by a pending submit_guess, or was submitted.
RevealStarted(r) ==
    \/ r < Len(guesses)
    \/ \E i \in 1 .. Len(tasks) : tasks[i].pc = "reveal" /\ tasks[i].row = r

\* C33: a key event (letter, Backspace, Enter) changes neither the letter
\* nor the state of a tile in a row whose reveal has started.
C33_KeysLeaveRevealedRows ==
    [][KeyEvent =>
          \A r \in Rows : RevealStarted(r) =>
             \A c \in Cols : tiles'[r][c] = tiles[r][c]]_vars

(***************************************************************************)
(* A game screen mounted with any guess list the server can hold, the      *)
(* replay left to itself:                                                  *)
(*   SpecRestore  _restore_saved_guesses up to its end, no key events      *)
(***************************************************************************)

\* The guess lists a snapshot can hold: SaveProgressRequest.guesses has
\* max_length=6 and its words are not checked.
StoredLists == UNION {[1 .. n -> Vocabulary] : n \in 1 .. MaxListLen}

InitRestore == InitReplayWith(StoredLists, {{}})

NextRestore == \E i \in 1 .. MaxTasks : RevealTile(i) \/ RestoreSubmitEnd(i)

SpecRestore == InitRestore /\ [][NextRestore]_vars

\* C34: whenever no submission is in progress, game_over is true exactly
\* when a submitted guess equals the target or current_row = 6.
C34_GameOverIffTerminal ==
    tasks = <<>> =>
       (game_over <=> \/ \E i \in 1 .. Len(guesses) : guesses[i] = board_target
                      \/ current_row = MaxRows)

(***************************************************************************)
(* Properties of a result against the progress stored before it            *)
(* (checked under SpecSeq)                                                 *)
(***************************************************************************)

\* C35: when a submit handler commits its Game Result, the result's
\* guess_history starts with the guess list of the snapshot stored for the
\* pair, and its time_seconds, when given, is not below the snapshot's
\* elapsed_seconds.
C35_ResultExtendsSnapshot ==
    [][\A r \in Reqs :
          (req[r].pc = "sg_commit" /\ Stepped(r)) =>
             \A st \in Stored(r) :
                /\ IsPrefix(st.guesses, req[r].game[1].guess_history)
                /\ req[r].game[1].time_seconds # None =>
                      req[r].game[1].time_seconds[1] >= st.elapsed_seconds]_vars

\* A pending submit_guess for row r has revealed all its tiles.
RevealOver(r) ==
    \E i \in 1 .. Len(tasks) :
        /\ tasks[i].pc = "reveal"
        /\ tasks[i].revealed = WordLen
        /\ tasks[i].row = r

\* C36: a row is submitted once.  Every step that appends a guess ends the
\* submit_guess of the row the cursor is on and moves the cursor to the next
\* row: no guess is appended for a row that was appended before, whatever
\* Enter key events arrived during the reveal.
C36_RowSubmittedOnce ==
    [][guesses' # guesses =>
          /\ RevealOver(current_row)
          /\ Len(guesses') = Len(guesses) + 1
          /\ current_row' = Len(guesses')]_vars

(***************************************************************************)
(* Properties of the streak after a solved game (checked under SpecDaily)  *)
(***************************************************************************)

\* C38: update_streak, writing to the record it read, leaves current_streak
\* at 1 or more when the game is solved, whatever the record held before,
\* a last_played equal to today's date included.
C38_SolvedStreakAtLeastOne ==
    [][\A r \in Reqs :
          (/\ StreakStep(r)
           /\ req[r].streak = user_streaks[req[r].user]
           /\ req[r].game[1].solved)
          => user_streaks'[req[r].user][1].current_streak >= 1]_vars

(***************************************************************************)
(* The evaluator's choice of positions (checked under SpecEval)            *)
(***************************************************************************)

\* Positions of the guess before i that are not exact matches and hold the
\* letter of position i.
EarlierInexact(g, t, i) ==
    Cardinality({k \in 1 .. (i - 1) : g[k] # t[k] /\ g[k] = g[i]})

\* Positions of the target that are not exact matches and hold letter l.
InexactOcc(g, t, l) ==
    Cardinality({j \in 1 .. WordLen : t[j] # g[j] /\ t[j] = l})

\* C39: an exact match is CORRECT; a position i that is not an exact match
\* is PRESENT when fewer earlier inexact positions of the guess hold its
\* letter than inexact positions of the target do, and ABSENT otherwise.
C39_LeftmostPresent ==
    ev_pc = "done" =>
        \A i \in 1 .. WordLen :
            ev_feedback[i] =
                IF ev_guess[i] = ev_target[i] THEN CORRECT
                ELSE IF EarlierInexact(ev_guess, ev_target, i)
                           < InexactOcc(ev_guess, ev_target, ev_guess[i])
                     THEN PRESENT
                     ELSE ABSENT

\* C39 witness: a letter held by two inexact positions of the guess and by
\* one inexact position of the target, to the right of an exact match of the
\* same letter: the left one is PRESENT, the right one ABSENT.
C39_Witness ==
    /\ ev_pc = "done"
    /\ \E e, i, k \in 1 .. WordLen :
          /\ e < i /\ i < k
          /\ ev_guess[e] = ev_target[e]
          /\ ev_guess[e] = ev_guess[i]
          /\ ev_guess[i] = ev_guess[k]
          /\ ev_feedback[i] = PRESENT
          /\ ev_feedback[k] = ABSENT

(***************************************************************************)
(* A logged-in session in which Enter may be pressed again while a         *)
(* submission is pending:                                                  *)
(*   SpecOnline  SpecSave's steps, and Enter during a pending task         *)
(***************************************************************************)

\* on_key with "enter" while a task of an earlier Enter is pending.
KeyEnterAgain == tasks # <<>> /\ KeyEnter

NextOnline == NextSave \/ KeyEnterAgain

SpecOnline == InitSession /\ [][NextOnline]_vars

\* C40: a step that sends a submit_game request sends the first and only one
\* of the session; its guess_history is the board's guess list, its attempts
\* is the length of that list, between 1 and 6, and solved says whether the
\* last guess is the target.  Once the session is over and no task is
\* pending, exactly one request has been sent.
C40_OneResultSubmitted ==
    [][/\ submitted' # submitted =>
            /\ submitted = <<>>
            /\ Len(submitted') = 1
            /\ submitted'[1].guess_history = guesses'
            /\ submitted'[1].attempts = Len(guesses')
            /\ submitted'[1].attempts \in 1 .. MaxRows
            /\ submitted'[1].solved <=> (guesses'[Len(guesses')] = board_target)
       /\ (game_over' /\ tasks' = <<>>) => Len(submitted') = 1]_vars

====
